---- MODULE Spec2Model ----
(***************************************************************************)
(* A model of the diagnostic aggregation core of golangci-lint:            *)
(*   - lint.Runner        (Run, runLinterSafe, processLintResults,         *)
(*                         processIssues)                                  *)
(*   - lintersdb.Validator and lintersdb.EnabledSet (validation and        *)
(*                         resolution of the enabled linters)              *)
(*   - processors.AutogeneratedExclude (the stage that drops the issues    *)
(*                         of generated files)                             *)
(*   - processors.SkipDirs (the stage that drops the issues of skipped     *)
(*                         directories)                                    *)
(*   - golinters govet, whitespace and lll                                 *)
(* Spec          runs Runner.Run over a list of linters and a pipeline.    *)
(* SpecResolver  runs EnabledSet.Get over a linters configuration, then    *)
(*               NewRunner's use of it and a second call of Get.           *)
(* SpecBuild     runs EnabledSet.build over any linters configuration.     *)
(* SpecAutogen   runs AutogeneratedExclude.Process over a list of issues.  *)
(* SpecAutogenTwice  calls Process again on the same and on a new          *)
(*               AutogeneratedExclude.                                     *)
(* SpecClassify  classifies one file by its leading comments.              *)
(* SpecPipeline  runs processLintResults with the processors of NewRunner. *)
(* SpecSkipDirs  runs NewSkipDirs and SkipDirs.Process.                    *)
(* SpecGovet     runs the analyzer selection of govet.                     *)
(* SpecPasses    runs the concurrent passes of whitespace or lll.          *)
(***************************************************************************)
EXTENDS Integers, Sequences, FiniteSets, TLC

\* ------------------------------------------------------------------ bounds

\* The longest list of linters handed to Runner.Run.
MaxLinters == 2

\* The number of processors in Runner.Processors.
NumStages == 2

\* The longest enable list and disable list of a linters configuration.
MaxNames == 2

\* The longest list of issues handed to AutogeneratedExclude.Process.
MaxIssues == 3

\* The longest file getDoc is checked on by itself, in lines.
MaxFileLines == 3

\* ------------------------------------------------------------ Runner: data

\* The names of the linters a run can be given, in registry order.
LinterNames == <<"unused", "govet", "gosimple", "lll">>

RunnableNames == {LinterNames[i] : i \in 1..MaxLinters}

\* linter.Config.DoesChangeTypes: "Currently, DoesChangeTypes is true only
\* for `unused`".
DoesChangeTypes(name) == name = "unused"

\* The lists of linters Run can be given: every sequence of distinct names.
RECURSIVE DistinctSeqs(_, _)
DistinctSeqs(S, n) ==
    IF n = 0 THEN {<<>>}
    ELSE {<<>>} \cup
         UNION {{<<x>> \o s : s \in DistinctSeqs(S \ {x}, n - 1)} : x \in S}

\* result.Issue, reduced to the text and the field the runner writes.
Unstamped == [Text |-> "unstamped", FromLinter |-> ""]
Prestamped == [Text |-> "prestamped", FromLinter |-> "typecheck"]

\* What Linter.Run can return beside a nil error, and beside a non-nil one.
RawIssueLists == {<<>>, <<Unstamped>>, <<Prestamped>>, <<Prestamped, Unstamped>>}
ErrIssueLists == {<<>>, <<Unstamped>>}

\* Error values. NoErr is nil.
NoErr == [kind |-> "nil", linter |-> ""]
LinterErr == [kind |-> "linter error", linter |-> ""]
StageErr == [kind |-> "stage error", linter |-> ""]

\* fmt.Errorf("can't run linter %s", lc.Linter.Name())
CantRun(name) == [kind |-> "can't run linter", linter |-> name]

\* The error the deferred recover of runLinterSafe builds from the panic data:
\* fmt.Errorf("%s: %w", lc.Name(), pe) for a *errorutil.PanicError,
\* fmt.Errorf("panic occurred: %s", panicData) for anything else.
PanicKinds == {"PanicError", "other"}

RecoverErrNil(panicData, name) == NoErr

RecoverErr(panicData, name) ==
    IF panicData = "PanicError"
    THEN [kind |-> "panic error", linter |-> name]
    ELSE [kind |-> "panic occurred", linter |-> ""]

\* runLinterSafe, the loop over the issues: an empty FromLinter gets lc.Name().
StampKeepEmpty(list, name) == list

Stamp(list, name) ==
    [i \in DOMAIN list |->
        IF list[i].FromLinter = ""
        THEN [list[i] EXCEPT !.FromLinter = name]
        ELSE list[i]]

\* Run: lintErrors = errors.Join(lintErrors, fmt.Errorf(...), err)
JoinErrorsOverwrite(lintErrors, name, e) == <<CantRun(name), e>>

JoinErrors(lintErrors, name, e) == lintErrors \o <<CantRun(name), e>>

\* Run: issues = append(issues, linterIssues...)
AppendIssuesOverwrite(issues, linterIssues) == linterIssues

AppendIssues(issues, linterIssues) == issues \o linterIssues

\* Run: the range loop takes the next linter.
LoopAdvanceSkip(i) == i + 2

LoopAdvance(i) == i + 1

\* What a processor's Process can return for an input: the input, the input
\* without its first issue (a filter), or nil and an error.
StageResults(in) ==
    { <<in, NoErr>>,
      <<IF in = <<>> THEN <<>> ELSE Tail(in), NoErr>>,
      <<(<<>>), StageErr>> }

\* processIssues: on an error the issues are kept, else replaced by newIssues;
\* a nil slice becomes an empty one.
NextIssuesAlways(issues, newIssues, e) == newIssues

NextIssues(issues, newIssues, e) == IF e # NoErr THEN issues ELSE newIssues

\* processLintResults: the body of the loop over r.Processors calls p.Finish().
FinishBodySkip(log, k) == log

FinishBody(log, k) == Append(log, k)


\* ---------------------------------------------------------- Resolver: data

\* The registry of linters (lintersdb.Manager): each linter.Config with its
\* name, alternative names, presets, default flag and slow flag; whether its
\* Linter is a *goanalysis.Linter, and whether that one loads the whole
\* program; wraps is the linters a metalinter runs, empty for the others.
\* "legacy" stands for a linter that is not a go/analysis one.
Registry ==
    { [name |-> "unused", aliases |-> {"megacheck"}, presets |-> {"unused"},
       enabledByDefault |-> TRUE, isSlow |-> TRUE, custom |-> FALSE,
       goanalysis |-> TRUE, wholeProgram |-> TRUE, wraps |-> {}],
      [name |-> "gosimple", aliases |-> {"megacheck"}, presets |-> {"style"},
       enabledByDefault |-> TRUE, isSlow |-> FALSE, custom |-> FALSE,
       goanalysis |-> TRUE, wholeProgram |-> FALSE, wraps |-> {}],
      [name |-> "govet", aliases |-> {"vet"}, presets |-> {"bugs"},
       enabledByDefault |-> TRUE, isSlow |-> FALSE, custom |-> FALSE,
       goanalysis |-> TRUE, wholeProgram |-> FALSE, wraps |-> {}],
      [name |-> "lll", aliases |-> {}, presets |-> {"style"},
       enabledByDefault |-> FALSE, isSlow |-> FALSE, custom |-> FALSE,
       goanalysis |-> TRUE, wholeProgram |-> FALSE, wraps |-> {}],
      [name |-> "legacy", aliases |-> {}, presets |-> {"bugs"},
       enabledByDefault |-> FALSE, isSlow |-> FALSE, custom |-> FALSE,
       goanalysis |-> FALSE, wholeProgram |-> FALSE, wraps |-> {}] }

\* lintersdb.AllPresets()
AllPresets == {"bugs", "style", "unused"}

\* Manager.GetLinterConfigs(name): the configs with that name or alternative
\* name; the empty set is nil.
GetLinterConfigs(name) ==
    {lc \in Registry : lc.name = name \/ name \in lc.aliases}

GetAllSupportedLinterConfigs == Registry

GetAllLinterConfigsForPreset(p) == {lc \in Registry : p \in lc.presets}

GetAllEnabledByDefaultLinters == {lc \in Registry : lc.enabledByDefault}

\* The names a configuration can put in its enable and disable lists: names,
\* alternative names, and a name no linter has.
ConfigNames == <<"unused", "megacheck", "govet", "lll", "nosuch">>

\* The lists of at most n of the elements of a sequence, in its order.
RECURSIVE SubLists(_, _)
SubLists(seq, n) ==
    IF n = 0 \/ seq = <<>> THEN {<<>>}
    ELSE SubLists(Tail(seq), n)
         \cup {<<Head(seq)>> \o t : t \in SubLists(Tail(seq), n - 1)}

NameLists == SubLists(ConfigNames, MaxNames)

PresetLists ==
    {<<>>, <<"bugs">>, <<"style">>, <<"bugs", "style">>, <<"style", "bugs">>,
     <<"nosuchpreset">>}

\* The preset names in the order of their strings.
PresetOrder == <<"bugs", "nosuchpreset", "style", "unused">>

\* cfg.LintersSettings.Custom: the custom linters of the configuration.
CustomLists == {<<>>, <<[name |-> "plug", enabled |-> FALSE, slow |-> TRUE]>>}

\* What loading a plugin yields: an error, or the name of its linter.
PluginOutcomes == {"error", "plug", "govet"}

\* config.Linters, with the custom linters settings beside it.
Configs ==
    [Enable : NameLists, Disable : NameLists, EnableAll : BOOLEAN,
     DisableAll : BOOLEAN, Fast : BOOLEAN, Presets : PresetLists,
     Custom : CustomLists]

NoConfig ==
    [Enable |-> <<>>, Disable |-> <<>>, EnableAll |-> FALSE, DisableAll |-> FALSE,
     Fast |-> FALSE, Presets |-> <<>>, Custom |-> <<>>]

Contains(seq, x) == \E i \in DOMAIN seq : seq[i] = x

\* ----------------------------------------------------- Resolver: Validator

Nil == "nil"

\* Validator.validateLintersNames
ValidateLintersNames(c) ==
    LET allNames == c.Enable \o c.Disable
    IN IF \E i \in DOMAIN allNames : GetLinterConfigs(allNames[i]) = {}
       THEN "unknown linters"
       ELSE Nil

\* Validator.validatePresets
ValidatePresetsKnownOnly(c) ==
    IF \E i \in DOMAIN c.Presets : c.Presets[i] \notin AllPresets
    THEN "no such preset"
    ELSE Nil

ValidatePresets(c) ==
    IF \E i \in DOMAIN c.Presets : c.Presets[i] \notin AllPresets
    THEN "no such preset"
    ELSE IF Len(c.Presets) # 0 /\ c.EnableAll
    THEN "--presets is incompatible with --enable-all"
    ELSE Nil

\* Validator.validateAllDisableEnableOptions
ValidateAllDisableEnableIgnoreFast(c) ==
    IF c.EnableAll /\ c.DisableAll
    THEN "--enable-all and --disable-all options must not be combined"
    ELSE IF c.DisableAll /\ Len(c.Enable) = 0 /\ Len(c.Presets) = 0
    THEN "all linters were disabled, but no one linter was enabled"
    ELSE IF c.DisableAll /\ Len(c.Disable) # 0
    THEN "can't combine options --disable-all and --disable"
    ELSE IF c.EnableAll /\ Len(c.Enable) # 0
    THEN "can't combine options --enable-all and --enable"
    ELSE Nil

ValidateAllDisableEnableOptions(c) ==
    IF c.EnableAll /\ c.DisableAll
    THEN "--enable-all and --disable-all options must not be combined"
    ELSE IF c.DisableAll /\ Len(c.Enable) = 0 /\ Len(c.Presets) = 0
    THEN "all linters were disabled, but no one linter was enabled"
    ELSE IF c.DisableAll /\ Len(c.Disable) # 0
    THEN "can't combine options --disable-all and --disable"
    ELSE IF c.EnableAll /\ Len(c.Enable) # 0 /\ ~c.Fast
    THEN "can't combine options --enable-all and --enable"
    ELSE Nil

\* Validator.validateDisabledAndEnabledAtOneMoment
ValidateDisabledAndEnabledNever(c) == Nil

ValidateDisabledAndEnabledAtOneMoment(c) ==
    LET enabledLintersSet == {c.Enable[i] : i \in DOMAIN c.Enable}
    IN IF \E i \in DOMAIN c.Disable : c.Disable[i] \in enabledLintersSet
       THEN "can't be disabled and enabled at one moment"
       ELSE Nil

\* Validator.validateEnabledDisabledLintersConfig: the first error of the
\* validators in their order.
ValidatePresetsFirst(c) ==
    IF ValidatePresets(c) # Nil THEN ValidatePresets(c)
    ELSE IF ValidateLintersNames(c) # Nil THEN ValidateLintersNames(c)
    ELSE IF ValidateAllDisableEnableOptions(c) # Nil
    THEN ValidateAllDisableEnableOptions(c)
    ELSE ValidateDisabledAndEnabledAtOneMoment(c)

ValidateEnabledDisabledLintersConfig(c) ==
    IF ValidateLintersNames(c) # Nil THEN ValidateLintersNames(c)
    ELSE IF ValidatePresets(c) # Nil THEN ValidatePresets(c)
    ELSE IF ValidateAllDisableEnableOptions(c) # Nil
    THEN ValidateAllDisableEnableOptions(c)
    ELSE ValidateDisabledAndEnabledAtOneMoment(c)

\* ---------------------------------------------------- Resolver: EnabledSet

\* resultLintersSet[lc.Name()] = lc, on a map held as the set of its values.
MapPut(m, lc) == {x \in m : x.name # lc.name} \cup {lc}

\* delete(resultLintersSet, name)
MapDelete(m, name) == {x \in m : x.name # name}

RECURSIVE MapPutAll(_, _)
MapPutAll(m, lcs) ==
    IF lcs = {} THEN m
    ELSE LET lc == CHOOSE x \in lcs : TRUE
         IN MapPutAll(MapPut(m, lc), lcs \ {lc})

RECURSIVE MapDeleteAll(_, _)
MapDeleteAll(m, lcs) ==
    IF lcs = {} THEN m
    ELSE LET lc == CHOOSE x \in lcs : TRUE
         IN MapDeleteAll(MapDelete(m, lc.name), lcs \ {lc})

\* build: the switch that seeds resultLintersSet.
SeedEnableAllFirst(lcfg) ==
    IF lcfg.EnableAll THEN GetAllSupportedLinterConfigs
    ELSE IF Len(lcfg.Presets) # 0 THEN {}
    ELSE IF lcfg.DisableAll THEN {}
    ELSE GetAllEnabledByDefaultLinters

Seed(lcfg) ==
    IF Len(lcfg.Presets) # 0 THEN {}
    ELSE IF lcfg.EnableAll THEN GetAllSupportedLinterConfigs
    ELSE IF lcfg.DisableAll THEN {}
    ELSE GetAllEnabledByDefaultLinters

\* build: the loop over lcfg.Presets.
AddPresetsFirstOnly(m, presets) ==
    IF presets = <<>> THEN m
    ELSE MapPutAll(m, GetAllLinterConfigsForPreset(Head(presets)))

RECURSIVE AddPresets(_, _)
AddPresets(m, presets) ==
    IF presets = <<>> THEN m
    ELSE AddPresets(MapPutAll(m, GetAllLinterConfigsForPreset(Head(presets))),
                    Tail(presets))

\* build: --fast removes the slow linters from the current set.
RemoveSlow(m, fast) == IF fast THEN {lc \in m : ~lc.isSlow} ELSE m

\* build: the loop over lcfg.Enable.
RECURSIVE ApplyEnable(_, _)
ApplyEnable(m, names) ==
    IF names = <<>> THEN m
    ELSE ApplyEnable(MapPutAll(m, GetLinterConfigs(Head(names))), Tail(names))

\* build: the loop over lcfg.Disable.
RECURSIVE ApplyDisable(_, _)
ApplyDisable(m, names) ==
    IF names = <<>> THEN m
    ELSE ApplyDisable(MapDeleteAll(m, GetLinterConfigs(Head(names))), Tail(names))

\* loadCustomLinterConfig: the config of a plugin's linter.
LoadCustomLinterConfig(settings, linterName) ==
    [name |-> linterName, aliases |-> {}, presets |-> {},
     enabledByDefault |-> settings.enabled, isSlow |-> settings.slow,
     custom |-> TRUE, goanalysis |-> TRUE, wholeProgram |-> FALSE, wraps |-> {}]

\* build: the loop over es.cfg.LintersSettings.Custom; loads[i] is what
\* loading the i-th plugin yields.
RECURSIVE MergeCustomKeepExisting(_, _, _)
MergeCustomKeepExisting(m, custom, loads) ==
    IF custom = <<>> THEN m
    ELSE MergeCustomKeepExisting(
            IF Head(loads) = "error" \/ \E lc \in m : lc.name = Head(loads) THEN m
            ELSE MapPut(m, LoadCustomLinterConfig(Head(custom), Head(loads))),
            Tail(custom), Tail(loads))

RECURSIVE MergeCustomFailClears(_, _, _)
MergeCustomFailClears(m, custom, loads) ==
    IF custom = <<>> THEN m
    ELSE MergeCustomFailClears(
            IF Head(loads) = "error" THEN {}
            ELSE MapPut(m, LoadCustomLinterConfig(Head(custom), Head(loads))),
            Tail(custom), Tail(loads))

RECURSIVE MergeCustom(_, _, _)
MergeCustom(m, custom, loads) ==
    IF custom = <<>> THEN m
    ELSE MergeCustom(
            IF Head(loads) = "error" THEN m
            ELSE MapPut(m, LoadCustomLinterConfig(Head(custom), Head(loads))),
            Tail(custom), Tail(loads))

\* EnabledSet.build
BuildFastLast(c, loads) ==
    MergeCustom(
        RemoveSlow(
            ApplyDisable(ApplyEnable(AddPresets(Seed(c), c.Presets), c.Enable),
                         c.Disable),
            c.Fast),
        c.Custom, loads)

BuildCustomFirst(c, loads) ==
    ApplyDisable(
        ApplyEnable(
            RemoveSlow(MergeCustom(AddPresets(Seed(c), c.Presets), c.Custom, loads),
                       c.Fast),
            c.Enable),
        c.Disable)

Build(c, loads) ==
    MergeCustom(
        ApplyDisable(
            ApplyEnable(RemoveSlow(AddPresets(Seed(c), c.Presets), c.Fast), c.Enable),
            c.Disable),
        c.Custom, loads)

\* sort.StringSlice(...).Sort() on a list of preset names.
RECURSIVE InsertSorted(_, _)
InsertSorted(seq, p) ==
    LET rank(x) == CHOOSE i \in DOMAIN PresetOrder : PresetOrder[i] = x
    IN IF seq = <<>> THEN <<p>>
       ELSE IF rank(p) < rank(Head(seq)) THEN <<p>> \o seq
       ELSE <<Head(seq)>> \o InsertSorted(Tail(seq), p)

RECURSIVE SortStrings(_)
SortStrings(seq) ==
    IF seq = <<>> THEN <<>>
    ELSE InsertSorted(SortStrings(Tail(seq)), Head(seq))

\* verbosePrintLintersStatus: what it leaves of the linters configuration; it
\* sorts cfg.Linters.Presets in place.
VerbosePrintLintersStatus(c) ==
    IF Len(c.Presets) # 0 THEN [c EXCEPT !.Presets = SortStrings(@)] ELSE c

\* goanalysis.NewMetaLinter(...).Name()
MetaLinterName == "goanalysis_metalinter"

\* combineGoAnalysisLinters: the map it leaves.
CombineWholeProgramToo(m) ==
    LET goanalysisLinters == {lc \in m : lc.goanalysis}
        goanalysisPresets == UNION {lc.presets : lc \in goanalysisLinters}
        mlConfig == [name |-> MetaLinterName, aliases |-> {},
                     presets |-> goanalysisPresets, enabledByDefault |-> FALSE,
                     isSlow |-> TRUE, custom |-> FALSE, goanalysis |-> FALSE,
                     wholeProgram |-> FALSE,
                     wraps |-> {lc.name : lc \in goanalysisLinters}]
    IN IF Cardinality(goanalysisLinters) <= 1 THEN m
       ELSE MapPut(MapDeleteAll(m, goanalysisLinters), mlConfig)

CombineGoAnalysisLinters(m) ==
    LET goanalysisLinters == {lc \in m : lc.goanalysis /\ ~lc.wholeProgram}
        goanalysisPresets == UNION {lc.presets : lc \in goanalysisLinters}
        mlConfig == [name |-> MetaLinterName, aliases |-> {},
                     presets |-> goanalysisPresets, enabledByDefault |-> FALSE,
                     isSlow |-> TRUE, custom |-> FALSE, goanalysis |-> FALSE,
                     wholeProgram |-> FALSE,
                     wraps |-> {lc.name : lc \in goanalysisLinters}]
    IN IF Cardinality(goanalysisLinters) <= 1 THEN m
       ELSE MapPut(MapDeleteAll(m, goanalysisLinters), mlConfig)

\* EnabledSet.Get(optimize) as one call: what it returns.
Get(c, loads, opt) ==
    IF ValidateEnabledDisabledLintersConfig(c) # Nil
    THEN [names |-> {}, err |-> ValidateEnabledDisabledLintersConfig(c),
          returned |-> TRUE]
    ELSE LET built == Build(c, loads)
             res == IF opt THEN CombineGoAnalysisLinters(built) ELSE built
         IN [names |-> {lc.name : lc \in res}, err |-> Nil, returned |-> TRUE]

\* NewRunner: a runner, or the error of the first step that fails: compiling
\* the skip-files patterns, compiling the skip-dirs patterns, getting the
\* enabled linters.
NewRunnerIgnoresEnabledErr(skipFilesOK, skipDirsOK, enabledErr) ==
    IF ~skipFilesOK THEN "error"
    ELSE IF ~skipDirsOK THEN "error"
    ELSE "runner"

NewRunnerResult(skipFilesOK, skipDirsOK, enabledErr) ==
    IF ~skipFilesOK THEN "error"
    ELSE IF ~skipDirsOK THEN "error"
    ELSE IF enabledErr # Nil THEN "error"
    ELSE "runner"

\* ----------------------------------------- AutogeneratedExclude stage: data

\* The file paths of the issues: no path, an ordinary file, a file with a
\* marker in its leading comment, a file that cannot be opened, a file with a
\* line too long for the scanner, and the fake files of goyacc.
Paths ==
    {"", "a.go", "gen.go", "missing.go", "huge.go", "dir/yacctab", "yaccpar", "NONE"}

\* filepath.Base
Base(filePath) ==
    IF filePath = "" THEN "."
    ELSE IF filePath = "dir/yacctab" THEN "yacctab"
    ELSE filePath

\* The lines a file is made of. TooLong stands for a line longer than the
\* buffer of the scanner.
TooLong == "too long"

Lines ==
    {"// Code generated by tool; DO NOT EDIT.",
     "  // AUTOGENERATED FILE",
     "// hand written",
     "/* do not edit */",
     "",
     "package p",
     "package p // do not edit",
     "func f() {}",
     TooLong}

\* strings.TrimSpace, on the lines
TrimSpace(line) ==
    IF line = "  // AUTOGENERATED FILE" THEN "// AUTOGENERATED FILE" ELSE line

\* strings.HasPrefix, on the trimmed lines and the two prefixes getDoc asks for
HasPrefix(line, prefix) ==
    CASE prefix = "//" ->
            line \in {"// Code generated by tool; DO NOT EDIT.",
                      "// AUTOGENERATED FILE", "// hand written"}
      [] prefix = "package" -> line \in {"package p", "package p // do not edit"}
      [] OTHER -> FALSE

\* strings.TrimSpace(strings.TrimPrefix(line, "//")), on the lines with that
\* prefix
TrimCommentPrefix(line) ==
    CASE line = "// Code generated by tool; DO NOT EDIT." ->
            "Code generated by tool; DO NOT EDIT."
      [] line = "// AUTOGENERATED FILE" -> "AUTOGENERATED FILE"
      [] line = "// hand written" -> "hand written"
      [] OTHER -> line

\* strings.ToLower, on the texts of the comments
ToLower(text) ==
    CASE text = "Code generated by tool; DO NOT EDIT." ->
            "code generated by tool; do not edit."
      [] text = "AUTOGENERATED FILE" -> "autogenerated file"
      [] OTHER -> text

\* strings.Contains, on the texts of the comments and the markers
StringsContains(text, marker) ==
    CASE text = "code generated by tool; do not edit." ->
            marker \in {"code generated", "do not edit"}
      [] text = "autogenerated file" -> marker = "autogenerated file"
      [] OTHER -> FALSE

\* isGeneratedFileByComment: markers
Markers == <<"code generated", "do not edit", "autogenerated file">>

\* NoFile is a file os.Open fails on.
NoFile == <<"no file">>

FileSystem ==
    [filePath \in Paths |->
        CASE filePath = "a.go" -> <<"// hand written", "package p", "", "func f() {}">>
          [] filePath = "gen.go" ->
                <<"// Code generated by tool; DO NOT EDIT.", "", "package p",
                  "func f() {}">>
          [] filePath = "huge.go" -> <<"package p", TooLong, "func f() {}">>
          [] filePath = "dir/yacctab" -> <<"package p", "func f() {}">>
          [] filePath = "NONE" -> <<"// hand written", "package p">>
          [] OTHER -> NoFile]

\* The issues the stage is given: result.Issue reduced to FromLinter and
\* FilePath().
AgeIssues == [FromLinter : {"typecheck", "govet"}, FilePath : Paths]

RECURSIVE SeqsUpTo(_, _)
SeqsUpTo(S, n) ==
    IF n = 0 THEN {<<>>}
    ELSE SeqsUpTo(S, n - 1)
         \cup {Append(q, x) : q \in {t \in SeqsUpTo(S, n - 1) : Len(t) = n - 1}, x \in S}

\* isSpecialAutogeneratedFile
IsSpecialWholePath(filePath) ==
    filePath \in {"yacctab", "yaccpar", "NONE"}

IsSpecialAutogeneratedFile(filePath) ==
    Base(filePath) \in {"yacctab", "yaccpar", "NONE"}

\* isGeneratedFileByComment. The doc is the list of the texts getDoc joins
\* with newlines; no marker holds a newline, so the joined doc contains a
\* marker exactly when one of the texts does.
IsGeneratedCaseSensitive(doc) ==
    \E k \in DOMAIN doc : \E n \in DOMAIN Markers : StringsContains(doc[k], Markers[n])

IsGeneratedFileByComment(doc) ==
    \E k \in DOMAIN doc :
        \E n \in DOMAIN Markers : StringsContains(ToLower(doc[k]), Markers[n])

\* getDoc: the loop over the lines, until the first line that, trimmed, neither
\* starts with "//", nor is empty, nor starts with "package"; a line too long
\* stops the scanner with an error.
RECURSIVE ScanDoc(_, _)
ScanDoc(lines, docLines) ==
    IF lines = <<>> THEN [doc |-> docLines, err |-> Nil]
    ELSE IF Head(lines) = TooLong THEN [doc |-> <<>>, err |-> "failed to scan file"]
    ELSE LET line == TrimSpace(Head(lines))
         IN IF HasPrefix(line, "//")
            THEN ScanDoc(Tail(lines), Append(docLines, TrimCommentPrefix(line)))
            ELSE IF line = "" \/ HasPrefix(line, "package")
            THEN ScanDoc(Tail(lines), docLines)
            ELSE [doc |-> docLines, err |-> Nil]

\* getDoc
GetDoc(filePath) ==
    IF FileSystem[filePath] = NoFile THEN [doc |-> <<>>, err |-> "failed to open file"]
    ELSE ScanDoc(FileSystem[filePath], <<>>)

\* getOrCreateFileSummary: the summary and the error it returns, the cache it
\* leaves, and the files it opened. A cache entry is "absent", "generated" or
\* "not generated"; the entry is stored before the file is looked at.
GetOrCreateFileSummaryNoCache(cache, i) ==
    LET filePath == i.FilePath
        stored == [cache EXCEPT ![filePath] = "not generated"]
        d == GetDoc(filePath)
    IN IF filePath = ""
       THEN [fs |-> "nil", err |-> "no file path for issue", cache |-> stored,
             opened |-> {}]
       ELSE IF d.err # Nil
       THEN [fs |-> "nil", err |-> "failed to get doc of file", cache |-> stored,
             opened |-> {filePath}]
       ELSE LET summary == IF IsGeneratedFileByComment(d.doc) THEN "generated"
                           ELSE "not generated"
            IN [fs |-> summary, err |-> Nil,
                cache |-> [cache EXCEPT ![filePath] = summary],
                opened |-> {filePath}]

GetOrCreateFileSummaryStoreLate(cache, i) ==
    LET filePath == i.FilePath
        stored == [cache EXCEPT ![filePath] = "not generated"]
        d == GetDoc(filePath)
    IN IF cache[filePath] # "absent"
       THEN [fs |-> cache[filePath], err |-> Nil, cache |-> cache, opened |-> {}]
       ELSE IF filePath = ""
       THEN [fs |-> "nil", err |-> "no file path for issue", cache |-> cache,
             opened |-> {}]
       ELSE IF d.err # Nil
       THEN [fs |-> "nil", err |-> "failed to get doc of file", cache |-> cache,
             opened |-> {filePath}]
       ELSE LET summary == IF IsGeneratedFileByComment(d.doc) THEN "generated"
                           ELSE "not generated"
            IN [fs |-> summary, err |-> Nil,
                cache |-> [cache EXCEPT ![filePath] = summary],
                opened |-> {filePath}]

GetOrCreateFileSummary(cache, i) ==
    LET filePath == i.FilePath
        stored == [cache EXCEPT ![filePath] = "not generated"]
        d == GetDoc(filePath)
    IN IF cache[filePath] # "absent"
       THEN [fs |-> cache[filePath], err |-> Nil, cache |-> cache, opened |-> {}]
       ELSE IF filePath = ""
       THEN [fs |-> "nil", err |-> "no file path for issue", cache |-> stored,
             opened |-> {}]
       ELSE IF d.err # Nil
       THEN [fs |-> "nil", err |-> "failed to get doc of file", cache |-> stored,
             opened |-> {filePath}]
       ELSE LET summary == IF IsGeneratedFileByComment(d.doc) THEN "generated"
                           ELSE "not generated"
            IN [fs |-> summary, err |-> Nil,
                cache |-> [cache EXCEPT ![filePath] = summary],
                opened |-> {filePath}]

\* NewAutogeneratedExclude: the cache is empty.
NewAutogeneratedExclude == [filePath \in Paths |-> "absent"]

\* AutogeneratedExclude.shouldPassIssue: whether the issue passes, the error,
\* the cache it leaves and the files it opened.
ShouldPassIssueNoTypecheck(cache, i) ==
    LET r == GetOrCreateFileSummary(cache, i)
    IN IF IsSpecialAutogeneratedFile(i.FilePath)
       THEN [pass |-> FALSE, err |-> Nil, cache |-> cache, opened |-> {}]
       ELSE IF r.err # Nil
       THEN [pass |-> FALSE, err |-> r.err, cache |-> r.cache, opened |-> r.opened]
       ELSE [pass |-> r.fs # "generated", err |-> Nil, cache |-> r.cache,
             opened |-> r.opened]

ShouldPassIssue(cache, i) ==
    LET r == GetOrCreateFileSummary(cache, i)
    IN IF i.FromLinter = "typecheck"
       THEN [pass |-> TRUE, err |-> Nil, cache |-> cache, opened |-> {}]
       ELSE IF IsSpecialAutogeneratedFile(i.FilePath)
       THEN [pass |-> FALSE, err |-> Nil, cache |-> cache, opened |-> {}]
       ELSE IF r.err # Nil
       THEN [pass |-> FALSE, err |-> r.err, cache |-> r.cache, opened |-> r.opened]
       ELSE [pass |-> r.fs # "generated", err |-> Nil, cache |-> r.cache,
             opened |-> r.opened]

\* ------------------------------------------------------------ SkipDirs: data

\* The arguments of the run, and the lists of them the model tries.
ArgLists ==
    {<<>>, <<"./...">>, <<"pkg/...">>, <<"pkg/a.go">>, <<"vendor">>,
     <<"pkg/...", "vendor">>}

\* The skip patterns the model tries; "(" does not compile.
PatternLists == {<<>>, <<".*">>, <<"^pkg">>, <<"vendor$", "^pkg">>, <<"(">>}

PathPrefixes == {"", "pre"}

\* issue.FilePath() of the issues SkipDirs is given.
SkipIssuePaths == {"a.go", "pkg/a.go", "pkg/sub/b.go", "vendor/v.go", "/abs/vendor/x.go"}

SkipIssueLists == SeqsUpTo(SkipIssuePaths, 3)

\* The directories of the issues, relative to the working directory.
RelDirs == {".", "pkg", "pkg/sub", "vendor"}

\* filepath.Base
FilepathBase(path) ==
    CASE path \in {"./...", "pkg/..."} -> "..."
      [] path \in {"pkg/a.go", "a.go"} -> "a.go"
      [] path = "pkg/sub/b.go" -> "b.go"
      [] path = "vendor/v.go" -> "v.go"
      [] path = "/abs/vendor/x.go" -> "x.go"
      [] OTHER -> path

\* filepath.Dir
FilepathDir(path) ==
    CASE path \in {"./...", "a.go", "vendor", "pkg"} -> "."
      [] path \in {"pkg/...", "pkg/a.go"} -> "pkg"
      [] path = "pkg/sub/b.go" -> "pkg/sub"
      [] path = "vendor/v.go" -> "vendor"
      [] path = "/abs/vendor/x.go" -> "/abs/vendor"
      [] OTHER -> "."

\* filepath.Abs when the working directory /w can be read.
FilepathAbs(path) ==
    CASE path = "." -> "/w"
      [] path = "pkg" -> "/w/pkg"
      [] path = "pkg/sub" -> "/w/pkg/sub"
      [] path = "vendor" -> "/w/vendor"
      [] OTHER -> path

\* filepath.IsAbs
FilepathIsAbs(path) == path = "/abs/vendor/x.go"

\* strings.HasSuffix(base, goFileExtension)
HasGoSuffix(base) == base \in {"a.go", "b.go", "v.go", "x.go"}

\* fsutils.WithPathPrefix
WithPathPrefix(prefix, path) ==
    IF prefix = "" THEN path
    ELSE CASE path = "." -> "pre"
           [] path = "pkg" -> "pre/pkg"
           [] path = "pkg/sub" -> "pre/pkg/sub"
           [] path = "vendor" -> "pre/vendor"
           [] OTHER -> path

\* regexp.Compile succeeds.
Compiles(pattern) == pattern # "("

\* Regexp.MatchString
MatchString(pattern, path) ==
    CASE pattern = ".*" -> TRUE
      [] pattern = "^pkg" -> path \in {"pkg", "pkg/sub"}
      [] pattern = "vendor$" -> path \in {"vendor", "pre/vendor"}
      [] OTHER -> FALSE

\* NewSkipDirs: the directories of the arguments, made absolute.
AbsArgsDirs(args) ==
    LET runArgs == IF Len(args) = 0 THEN <<"./...">> ELSE args
        ArgDir(arg) ==
            IF FilepathBase(arg) = "..." \/ HasGoSuffix(FilepathBase(arg))
            THEN FilepathDir(arg) ELSE arg
    IN [k \in DOMAIN runArgs |-> FilepathAbs(ArgDir(runArgs[k]))]

\* NewSkipDirs: the maps are empty; NoStat stands for a missing entry.
NoStat == [pattern |-> Nil, count |-> 0]

NoSkippedDirs == [dir \in RelDirs |-> NoStat]

NoSkippedDirsCache == [dir \in RelDirs |-> "absent"]

\* The first pattern of the list that matches the path, or Nil.
RECURSIVE FirstMatch(_, _)
FirstMatch(patterns, path) ==
    IF patterns = <<>> THEN Nil
    ELSE IF MatchString(Head(patterns), path) THEN Head(patterns)
    ELSE FirstMatch(Tail(patterns), path)

\* SkipDirs.shouldPassIssueDirs: whether the issue passes and the skippedDirs
\* it leaves.
ShouldPassIssueDirsPatternsOnly(absArgs, patterns, prefix, skipped, issueRelDir, issueAbsDir) ==
    LET ps == FirstMatch(patterns, WithPathPrefix(prefix, issueRelDir))
    IN IF ps = Nil THEN [pass |-> TRUE, skipped |-> skipped]
       ELSE [pass |-> FALSE,
             skipped |-> [skipped EXCEPT ![issueRelDir] =
                             IF @ = NoStat THEN [pattern |-> ps, count |-> 1]
                             ELSE [@ EXCEPT !.count = @ + 1]]]

ShouldPassIssueDirsNoPrefix(absArgs, patterns, prefix, skipped, issueRelDir, issueAbsDir) ==
    IF \E k \in DOMAIN absArgs : absArgs[k] = issueAbsDir
    THEN [pass |-> TRUE, skipped |-> skipped]
    ELSE LET ps == FirstMatch(patterns, issueRelDir)
         IN IF ps = Nil THEN [pass |-> TRUE, skipped |-> skipped]
            ELSE [pass |-> FALSE,
                  skipped |-> [skipped EXCEPT ![issueRelDir] =
                                  IF @ = NoStat THEN [pattern |-> ps, count |-> 1]
                                  ELSE [@ EXCEPT !.count = @ + 1]]]

ShouldPassIssueDirs(absArgs, patterns, prefix, skipped, issueRelDir, issueAbsDir) ==
    IF \E k \in DOMAIN absArgs : absArgs[k] = issueAbsDir
    THEN [pass |-> TRUE, skipped |-> skipped]
    ELSE LET ps == FirstMatch(patterns, WithPathPrefix(prefix, issueRelDir))
         IN IF ps = Nil THEN [pass |-> TRUE, skipped |-> skipped]
            ELSE [pass |-> FALSE,
                  skipped |-> [skipped EXCEPT ![issueRelDir] =
                                  IF @ = NoStat THEN [pattern |-> ps, count |-> 1]
                                  ELSE [@ EXCEPT !.count = @ + 1]]]

\* SkipDirs.shouldPassIssue: whether the issue passes, the cache and the
\* skippedDirs it leaves, whether the cache answered, and whether it read a
\* missing skippedDirs entry; absOK says whether filepath.Abs succeeded.
SkipDirsShouldPassIssueHitNoCount(absArgs, patterns, prefix, cache, skipped, filePath, absOK) ==
    LET issueRelDir == FilepathDir(filePath)
        stay == [pass |-> TRUE, cache |-> cache, skipped |-> skipped, hit |-> FALSE,
                 panic |-> FALSE]
    IN IF FilepathIsAbs(filePath) THEN stay
       ELSE IF cache[issueRelDir] # "absent"
       THEN IF cache[issueRelDir] = "pass" THEN [stay EXCEPT !.hit = TRUE]
            ELSE IF skipped[issueRelDir] = NoStat
            THEN [stay EXCEPT !.pass = FALSE, !.hit = TRUE, !.panic = TRUE]
            ELSE [stay EXCEPT !.pass = FALSE, !.hit = TRUE]
       ELSE IF ~absOK THEN stay
       ELSE LET r == ShouldPassIssueDirs(absArgs, patterns, prefix, skipped, issueRelDir,
                                         FilepathAbs(issueRelDir))
            IN [pass |-> r.pass,
                cache |-> [cache EXCEPT ![issueRelDir] = IF r.pass THEN "pass" ELSE "skip"],
                skipped |-> r.skipped, hit |-> FALSE, panic |-> FALSE]

SkipDirsShouldPassIssue(absArgs, patterns, prefix, cache, skipped, filePath, absOK) ==
    LET issueRelDir == FilepathDir(filePath)
        stay == [pass |-> TRUE, cache |-> cache, skipped |-> skipped, hit |-> FALSE,
                 panic |-> FALSE]
    IN IF FilepathIsAbs(filePath) THEN stay
       ELSE IF cache[issueRelDir] # "absent"
       THEN IF cache[issueRelDir] = "pass" THEN [stay EXCEPT !.hit = TRUE]
            ELSE IF skipped[issueRelDir] = NoStat
            THEN [stay EXCEPT !.pass = FALSE, !.hit = TRUE, !.panic = TRUE]
            ELSE [stay EXCEPT !.pass = FALSE, !.hit = TRUE,
                              !.skipped = [skipped EXCEPT ![issueRelDir].count = @ + 1]]
       ELSE IF ~absOK THEN stay
       ELSE LET r == ShouldPassIssueDirs(absArgs, patterns, prefix, skipped, issueRelDir,
                                         FilepathAbs(issueRelDir))
            IN [pass |-> r.pass,
                cache |-> [cache EXCEPT ![issueRelDir] = IF r.pass THEN "pass" ELSE "skip"],
                skipped |-> r.skipped, hit |-> FALSE, panic |-> FALSE]

\* --------------------------------------------------------------- govet: data

\* getAllAnalyzers: the names of the analyzers, in their order.
AllAnalyzers ==
    <<"asmdecl", "assign", "atomic", "atomicalign", "bools", "buildtag", "cgocall",
      "composites", "copylocks", "errorsas", "httpresponse", "loopclosure",
      "lostcancel", "nilfunc", "printf", "shadow", "shift", "stdmethods",
      "structtag", "tests", "unmarshal", "unreachable", "unsafeptr", "unusedresult">>

\* getDefaultAnalyzers: all of them but atomicalign and shadow.
DefaultAnalyzers ==
    SelectSeq(AllAnalyzers, LAMBDA name : name \notin {"atomicalign", "shadow"})

\* The enable and disable lists of config.GovetSettings the model tries.
AnalyzerLists ==
    {<<>>, <<"shadow">>, <<"printf">>, <<"shadow", "printf">>, <<"atomicalign">>}

\* *config.GovetSettings: nil, or the settings.
NilGovetSettings ==
    [nil |-> TRUE, EnableAll |-> FALSE, DisableAll |-> FALSE, Enable |-> <<>>,
     Disable |-> <<>>, CheckShadowing |-> FALSE]

GovetSettings ==
    [nil : {FALSE}, EnableAll : BOOLEAN, DisableAll : BOOLEAN, Enable : AnalyzerLists,
     Disable : AnalyzerLists, CheckShadowing : BOOLEAN]

\* isAnalyzerEnabled
IsAnalyzerEnabled(name, c, defaultAnalyzers) ==
    IF c.EnableAll THEN TRUE
    ELSE IF Contains(c.Enable, name) THEN TRUE
    ELSE IF Contains(c.Disable, name) THEN TRUE
    ELSE IF c.DisableAll THEN FALSE
    ELSE Contains(defaultAnalyzers, name)

\* analyzersFromConfig: the settings it leaves, CheckShadowing having put
\* shadow in the enable list.
WithCheckShadowing(c) ==
    IF c.CheckShadowing THEN [c EXCEPT !.Enable = Append(@, "shadow")] ELSE c

\* analyzersFromConfig: the analyzers it returns.
AnalyzersFromConfig(c) ==
    IF c.nil THEN DefaultAnalyzers
    ELSE SelectSeq(AllAnalyzers,
                   LAMBDA name : IsAnalyzerEnabled(name, WithCheckShadowing(c),
                                                   DefaultAnalyzers))

\* ------------------------------------------------- whitespace and lll: data

\* The analysis passes that run concurrently on one linter.
Passes == {1, 2}

\* whitespace.Message, reduced to its type and its line numbers.
Finding(messageType, lineNumbers) ==
    [MessageType |-> messageType, LineNumbers |-> lineNumbers]

\* What whitespace.Run can return for a pass.
FindingLists ==
    {<<>>,
     <<Finding("Remove", <<3, 4>>)>>,
     <<Finding("Add", <<>>)>>,
     <<Finding("Remove", <<>>)>>,
     <<Finding("Add", <<>>), Finding("Remove", <<5>>)>>,
     <<Finding("Remove", <<3>>), Finding("Remove", <<>>)>>,
     <<Finding("Add", <<>>), Finding("Unknown", <<>>)>>}

\* *result.Range and *result.Replacement: nil, or what they point to.
NoRange == [set |-> FALSE, From |-> 0, To |-> 0]

NoReplacement == [set |-> FALSE, NeedOnlyDelete |-> FALSE, Inline |-> FALSE]

\* The zero goanalysis.Issue: what make([]goanalysis.Issue, n) is filled with.
ZeroIssue ==
    [Pass |-> 0, Finding |-> 0, FromLinter |-> "", LineRange |-> NoRange,
     Replacement |-> NoReplacement]

\* NewWhitespace, the body of the loop over whitespaceIssues: the element of
\* issues for the i-th finding of the pass, and whether the loop returns an
\* error instead.
WhitespaceIssue(pass, i, issue) ==
    LET report == [Pass |-> pass, Finding |-> i, FromLinter |-> "whitespace",
                   LineRange |-> NoRange, Replacement |-> NoReplacement]
    IN CASE issue.MessageType = "Remove" ->
              IF Len(issue.LineNumbers) = 0
              THEN [issue |-> ZeroIssue, err |-> FALSE]
              ELSE [issue |-> [report EXCEPT
                                  !.LineRange =
                                      [set |-> TRUE, From |-> issue.LineNumbers[1],
                                       To |-> issue.LineNumbers[Len(issue.LineNumbers)]],
                                  !.Replacement =
                                      [set |-> TRUE, NeedOnlyDelete |-> TRUE,
                                       Inline |-> FALSE]],
                    err |-> FALSE]
         [] issue.MessageType = "Add" ->
              [issue |-> [report EXCEPT
                             !.Replacement =
                                 [set |-> TRUE, NeedOnlyDelete |-> FALSE, Inline |-> TRUE]],
               err |-> FALSE]
         [] OTHER -> [issue |-> ZeroIssue, err |-> TRUE]

\* NewWhitespace, the Run of the analyzer up to the lock: the issues of the
\* pass, or an error.
WhitespaceIssues(pass, whitespaceIssues) ==
    LET made == [i \in DOMAIN whitespaceIssues |->
                    WhitespaceIssue(pass, i, whitespaceIssues[i])]
    IN IF \E i \in DOMAIN made : made[i].err
       THEN [issues |-> <<>>, err |-> TRUE]
       ELSE [issues |-> [i \in DOMAIN made |-> made[i].issue], err |-> FALSE]

\* lll.New, the Run of the analyzer up to the lock: runLll returns an error,
\* or one issue for each long line it found.
LllIssues(pass, longLines, failed) ==
    IF failed THEN [issues |-> <<>>, err |-> TRUE]
    ELSE [issues |-> [i \in 1..longLines |->
                         [Pass |-> pass, Finding |-> i, FromLinter |-> "lll",
                          LineRange |-> NoRange, Replacement |-> NoReplacement]],
          err |-> FALSE]

\* What the Run of the analyzer can make of a pass.
PassResults(name, pass) ==
    IF name = "whitespace"
    THEN {WhitespaceIssues(pass, findings) : findings \in FindingLists}
    ELSE {LllIssues(pass, longLines, failed) : longLines \in 0..2, failed \in BOOLEAN}

\* --------------------------------------------- The pipeline of NewRunner: data

\* NewRunner: the processors of the Runner it returns, in their order.
NewRunnerProcessors ==
    <<"cgo", "filename_unadjuster", "path_prettifier", "skip_files", "skip_dirs",
      "autogenerated_exclude", "identifier_marker", "exclude", "exclude_rules",
      "nolint", "uniq_by_line", "diff", "max_per_file_from_linter",
      "max_same_issues", "max_from_linter", "source_code", "path_shortener",
      "severity_rules", "fixer", "path_prefixer", "sort_results">>

\* The list with the processor at position k moved to position n.
MoveTo(list, k, n) ==
    LET without == [m \in 1..(Len(list) - 1) |-> IF m < k THEN list[m] ELSE list[m + 1]]
    IN [m \in 1..Len(list) |->
            IF m < n THEN without[m] ELSE IF m = n THEN list[k] ELSE without[m - 1]]

\* Runner.Processors
ProcessorsNoAutogen ==
    SelectSeq(NewRunnerProcessors, LAMBDA name : name # "autogenerated_exclude")

ProcessorsSkipDirsFirst == MoveTo(NewRunnerProcessors, 5, 3)

ProcessorsFixerLast == MoveTo(NewRunnerProcessors, 19, 20)

ProcessorsSeverityFirst == MoveTo(NewRunnerProcessors, 18, 17)

ProcessorsSameIssuesLast == MoveTo(NewRunnerProcessors, 14, 15)

ProcessorsSortBeforePrefixer == MoveTo(NewRunnerProcessors, 21, 20)

Processors == NewRunnerProcessors

\* The issues the pipeline is given: result.Issue reduced to FromLinter,
\* FilePath(), Line(), Column(), and whether a rule of the user includes its
\* path.
Issue(linter, filePath, line, column, rule) ==
    [FromLinter |-> linter, FilePath |-> filePath, Line |-> line, Column |-> column,
     Rule |-> rule]

PipelineIssues ==
    {Issue("govet", "gen.go", 1, 1, "include"),
     Issue("govet", "gen.go", 1, 1, "none"),
     Issue("typecheck", "gen.go", 1, 1, "none"),
     Issue("govet", "a.go", 1, 1, "include"),
     Issue("govet", "a.go", 1, 2, "none"),
     Issue("typecheck", "a.go", 1, 2, "none"),
     Issue("govet", "a.go", 2, 1, "none"),
     Issue("govet", "missing.go", 1, 1, "none")}

PipelineLists == SeqsUpTo(PipelineIssues, 2)

\* filterIssuesErr with shouldPassIssue on a new AutogeneratedExclude: the
\* issues that pass, or nil and the first error.
RECURSIVE FilterIssuesErr(_, _, _)
FilterIssuesErr(list, cache, retIssues) ==
    IF list = <<>> THEN <<retIssues, NoErr>>
    ELSE LET r == ShouldPassIssue(cache, Head(list))
         IN IF r.err # Nil THEN <<(<<>>), StageErr>>
            ELSE FilterIssuesErr(Tail(list), r.cache,
                                 IF r.pass THEN Append(retIssues, Head(list))
                                 ELSE retIssues)

\* The list without its first issue that no rule of the user includes.
RECURSIVE DropFirstNotIncluded(_)
DropFirstNotIncluded(list) ==
    IF list = <<>> THEN <<>>
    ELSE IF Head(list).Rule # "include" THEN Tail(list)
    ELSE <<Head(list)>> \o DropFirstNotIncluded(Tail(list))

\* The order of the sort: file path, then line, then column, then linter.
PathRank(filePath) ==
    CASE filePath = "a.go" -> 1 [] filePath = "gen.go" -> 2 [] OTHER -> 3

LinterRank(name) == IF name = "govet" THEN 1 ELSE 2

Less(a, b) ==
    \/ PathRank(a.FilePath) < PathRank(b.FilePath)
    \/ /\ a.FilePath = b.FilePath
       /\ \/ a.Line < b.Line
          \/ /\ a.Line = b.Line
             /\ \/ a.Column < b.Column
                \/ a.Column = b.Column
                   /\ LinterRank(a.FromLinter) < LinterRank(b.FromLinter)

RECURSIVE InsertIssue(_, _)
InsertIssue(list, i) ==
    IF list = <<>> THEN <<i>>
    ELSE IF Less(i, Head(list)) THEN <<i>> \o list
    ELSE <<Head(list)>> \o InsertIssue(Tail(list), i)

RECURSIVE SortIssues(_)
SortIssues(list) ==
    IF list = <<>> THEN <<>>
    ELSE InsertIssue(SortIssues(SubSeq(list, 1, Len(list) - 1)), list[Len(list)])

\* What the Process of a processor can return for an input.
StageOutcomes(name, in) ==
    CASE name = "autogenerated_exclude" ->
            {FilterIssuesErr(in, NewAutogeneratedExclude, <<>>)}
      [] name \in {"exclude", "exclude_rules"} ->
            {<<in, NoErr>>, <<DropFirstNotIncluded(in), NoErr>>, <<(<<>>), StageErr>>}
      [] name = "sort_results" -> {<<SortIssues(in), NoErr>>}
      [] name \in {"path_shortener", "path_prefixer"} -> {<<in, NoErr>>}
      [] OTHER -> StageResults(in)

\* What the paths of the issues are after a processor.
FormAfter(name, form) ==
    CASE name = "path_shortener" -> "shortened"
      [] name = "path_prefixer" -> "prefixed"
      [] OTHER -> form

\* ----------------------------------------------------------- Runner: state

VARIABLES
    linters,     \* the argument of Run: a sequence of linter names
    pc,          \* where Run is
    idx,         \* Run: the position of the range loop over linters
    running,     \* the linters whose Linter.Run is executing
    typesDirty,  \* lintCtx: a linter left type information behind
    ret,         \* runLinterSafe: issues
    err,         \* runLinterSafe: err
    issues,      \* Run: issues
    lintErrors,  \* Run: lintErrors, the joined errors in order
    inIssues,    \* processLintResults: inIssues
    pIssues,     \* processIssues: issues
    pidx,        \* the position of the loop over r.Processors
    outIssues,   \* processLintResults: outIssues
    result,      \* what Run returned
    runLog,      \* history: what each Linter.Run did
    started,     \* history: how often each linter's Run was called
    recorded,    \* history: how many linters Run has finished handling
    procLog,     \* history: the calls of Process
    finLog,      \* history: the calls of Finish
    cfg,         \* EnabledSet.cfg: the linters configuration
    epc,         \* where EnabledSet.Get is
    verr,        \* the error of validateEnabledDisabledLintersConfig
    loaded,      \* history: what loading each custom linter yielded
    resultLintersSet,  \* Get: resultLintersSet
    resolved,    \* what Get returned: the names of the linters, and the error
    optimize,    \* Get: optimize
    builtSet,    \* history: resultLintersSet as build returned it
    newRunner,   \* what NewRunner returned
    second,      \* what a second call of Get returned
    apc,         \* where AutogeneratedExclude.Process is
    aIn,         \* Process: issues
    aIdx,        \* filterIssuesErr: the position of the loop over issues
    aOut,        \* filterIssuesErr: retIssues
    aErr,        \* the error Process returns
    fileSummaryCache,  \* AutogeneratedExclude.fileSummaryCache
    opens,       \* history: how often getDoc opened each file
    decisions,   \* history: what shouldPassIssue returned for each issue
    aNext,       \* processIssues: the issues after the stage
    cpc,         \* where the classification of one file is
    content,     \* the lines of the file getDoc reads
    docErr,      \* getDoc: err
    isGenerated, \* ageFileSummary.isGenerated
    qpc,         \* where processLintResults is, with the processors of NewRunner
    qidx,        \* processIssues: the position of the loop over r.Processors
    qIn,         \* processLintResults: inIssues
    qIssues,     \* processIssues: issues
    qForm,       \* what the paths of the issues are: relative, shortened, prefixed
    qLog,        \* history: the processors whose Process ran, and the paths they saw
    qAgIn,       \* history: the issues AutogeneratedExclude was given
    qAgOut,      \* history: the issues processIssues had after AutogeneratedExclude
    qAgErr,      \* history: AutogeneratedExclude returned an error
    qOut,        \* processLintResults: outIssues
    spc,         \* where NewSkipDirs and SkipDirs.Process are
    runArgs,     \* NewSkipDirs: runArgs
    sPatterns,   \* NewSkipDirs: patterns
    pathPrefix,  \* SkipDirs.pathPrefix
    absArgsDirs, \* SkipDirs.absArgsDirs
    sIn,         \* SkipDirs.Process: issues
    sIdx,        \* filterIssues: the position of its loop
    sOut,        \* filterIssues: retIssues, then what Process returns
    skippedDirsCache, \* SkipDirs.skippedDirsCache
    skippedDirs, \* SkipDirs.skippedDirs
    sPanic,      \* shouldPassIssue read a skippedDirs entry that is not there
    sDecisions,  \* history: the issues shouldPassIssue saw and what it answered
    gpc,         \* where analyzersFromConfig is
    govetCfg,    \* analyzersFromConfig: cfg
    enabledAnalyzers, \* analyzersFromConfig: what it returns
    wLinter,     \* the linter whose passes run: whitespace or lll
    wpc,         \* where the Run of each pass is
    wIssues,     \* Run: issues, for each pass
    wErr,        \* Run returned an error, for each pass
    mu,          \* the mutex: 0, or the pass that holds it
    wLen,        \* append: the length of resIssues it read, for each pass
    resIssues,   \* NewWhitespace, lll.New: resIssues
    reported     \* what the issues reporter returned

rvars == <<linters, pc, idx, running, typesDirty, ret, err, issues, lintErrors,
           inIssues, pIssues, pidx, outIssues, result, runLog, started, recorded, procLog, finLog>>

xvars == <<optimize, builtSet, newRunner, second>>

evars == <<cfg, epc, verr, loaded, resultLintersSet, resolved, xvars>>

avars == <<apc, aIn, aIdx, aOut, aErr, fileSummaryCache, opens, decisions, aNext>>

cvars == <<cpc, content, docErr, isGenerated>>

qvars == <<qpc, qidx, qIn, qIssues, qForm, qLog, qAgIn, qAgOut, qAgErr, qOut>>

svars == <<spc, runArgs, sPatterns, pathPrefix, absArgsDirs, sIn, sIdx, sOut,
           skippedDirsCache, skippedDirs, sPanic, sDecisions>>

gvars == <<gpc, govetCfg, enabledAnalyzers>>

wvars == <<wLinter, wpc, wIssues, wErr, mu, wLen, resIssues, reported>>

\* The variables of the stages and linters that run by themselves.
ovars == <<cvars, qvars, svars, gvars, wvars>>

vars == <<rvars, evars, avars, ovars>>

\* No file is being classified.
ClassifyIdle ==
    /\ cpc = "idle"
    /\ content = <<>>
    /\ docErr = Nil
    /\ isGenerated = FALSE

\* The pipeline of NewRunner is not running.
PipelineIdle ==
    /\ qpc = "idle"
    /\ qidx = 1
    /\ qIn = <<>>
    /\ qIssues = <<>>
    /\ qForm = "relative"
    /\ qLog = <<>>
    /\ qAgIn = <<>>
    /\ qAgOut = <<>>
    /\ qAgErr = FALSE
    /\ qOut = <<>>

\* No SkipDirs is made.
SkipDirsIdle ==
    /\ spc = "idle"
    /\ runArgs = <<>>
    /\ sPatterns = <<>>
    /\ pathPrefix = ""
    /\ absArgsDirs = <<>>
    /\ sIn = <<>>
    /\ sIdx = 1
    /\ sOut = <<>>
    /\ skippedDirsCache = NoSkippedDirsCache
    /\ skippedDirs = NoSkippedDirs
    /\ sPanic = FALSE
    /\ sDecisions = <<>>

\* analyzersFromConfig is not called.
GovetIdle ==
    /\ gpc = "idle"
    /\ govetCfg = NilGovetSettings
    /\ enabledAnalyzers = <<>>

\* No pass of whitespace or lll runs.
PassesIdle ==
    /\ wLinter = "none"
    /\ wpc = [p \in Passes |-> "idle"]
    /\ wIssues = [p \in Passes |-> <<>>]
    /\ wErr = [p \in Passes |-> FALSE]
    /\ mu = 0
    /\ wLen = [p \in Passes |-> 0]
    /\ resIssues = <<>>
    /\ reported = <<>>

OthersIdle ==
    ClassifyIdle /\ PipelineIdle /\ SkipDirsIdle /\ GovetIdle /\ PassesIdle

\* The stage at rest, while the runner or the resolver runs.
AutogenIdle ==
    /\ apc = "idle"
    /\ aIn = <<>>
    /\ aIdx = 1
    /\ aOut = <<>>
    /\ aErr = Nil
    /\ fileSummaryCache = NewAutogeneratedExclude
    /\ opens = [filePath \in Paths |-> 0]
    /\ decisions = <<>>
    /\ aNext = <<>>

NoResolved == [names |-> {}, err |-> Nil, returned |-> FALSE]

\* What surrounds the first call of Get, before anything happened.
AroundIdle ==
    /\ optimize = FALSE
    /\ builtSet = {}
    /\ newRunner = "not called"
    /\ second = NoResolved

\* The resolver at rest, while the runner runs: Run is a method of the
\* Runner that NewRunner returned.
ResolverIdle ==
    /\ cfg = NoConfig
    /\ epc = "idle"
    /\ verr = Nil
    /\ loaded = <<>>
    /\ resultLintersSet = {}
    /\ resolved = NoResolved
    /\ optimize = FALSE
    /\ builtSet = {}
    /\ newRunner = "runner"
    /\ second = NoResolved

NoResult == [issues |-> <<>>, err |-> <<>>, returned |-> FALSE]

Init ==
    /\ AutogenIdle
    /\ OthersIdle
    /\ linters \in DistinctSeqs(RunnableNames, MaxLinters)
    /\ pc = "loop"
    /\ idx = 1
    /\ running = {}
    /\ typesDirty = FALSE
    /\ ret = <<>>
    /\ err = NoErr
    /\ issues = <<>>
    /\ lintErrors = <<>>
    /\ inIssues = <<>>
    /\ pIssues = <<>>
    /\ pidx = 1
    /\ outIssues = <<>>
    /\ result = NoResult
    /\ runLog = <<>>
    /\ started = [i \in 1..MaxLinters |-> 0]
    /\ recorded = 0
    /\ procLog = <<>>
    /\ finLog = <<>>
    /\ ResolverIdle

\* --------------------------------------------------------- Runner: actions

\* Run takes the next linter and runLinterSafe calls lc.Linter.Run.
StartLinter ==
    /\ pc = "loop"
    /\ idx <= Len(linters)
    /\ pc' = "linterRun"
    /\ running' = running \cup {idx}
    /\ started' = [started EXCEPT ![idx] = @ + 1]
    /\ typesDirty' = (typesDirty \/ DoesChangeTypes(linters[idx]))
    /\ ret' = <<>>
    /\ err' = NoErr
    /\ UNCHANGED <<evars, avars, ovars, linters, inIssues, pIssues, idx, issues, lintErrors, pidx, outIssues, result,
                   runLog, recorded, procLog, finLog>>

\* lc.Linter.Run returns issues and an error, nil or not.
LinterReturns ==
    /\ pc = "linterRun"
    /\ \E e \in {NoErr, LinterErr} :
         \E list \in (IF e = NoErr THEN RawIssueLists ELSE ErrIssueLists) :
            /\ ret' = list
            /\ err' = e
            /\ runLog' = Append(runLog,
                   [linter |-> idx,
                    outcome |-> IF e = NoErr THEN "ok" ELSE "error",
                    issues |-> list])
    /\ running' = running \ {idx}
    /\ pc' = "afterRun"
    /\ UNCHANGED <<evars, avars, ovars, linters, inIssues, pIssues, idx, typesDirty, issues, lintErrors, pidx, outIssues,
                   result, started, recorded, procLog, finLog>>

\* lc.Linter.Run panics: the deferred function recovers, and runLinterSafe
\* returns nil issues and the error built from the panic data. The statements
\* after the call are not executed.
LinterPanics ==
    /\ pc = "linterRun"
    /\ \E panicData \in PanicKinds :
         err' = RecoverErr(panicData, linters[idx])
    /\ ret' = <<>>
    /\ runLog' = Append(runLog, [linter |-> idx, outcome |-> "panic", issues |-> <<>>])
    /\ running' = running \ {idx}
    /\ pc' = "record"
    /\ UNCHANGED <<evars, avars, ovars, linters, inIssues, pIssues, idx, typesDirty, issues, lintErrors, pidx, outIssues,
                   result, started, recorded, procLog, finLog>>

\* runLinterSafe after the call: clear the types after a linter that changes
\* them, return nil and the error when there is one, else stamp the issues.
AfterLinterRunKeepsIssues ==
    /\ pc = "afterRun"
    /\ typesDirty' = IF DoesChangeTypes(linters[idx]) THEN FALSE ELSE typesDirty
    /\ ret' = Stamp(ret, linters[idx])
    /\ err' = NoErr
    /\ pc' = "record"
    /\ UNCHANGED <<evars, avars, ovars, linters, inIssues, pIssues, idx, running, issues, lintErrors, pidx, outIssues,
                   result, runLog, started, recorded, procLog, finLog>>

AfterLinterRun ==
    /\ pc = "afterRun"
    /\ typesDirty' = IF DoesChangeTypes(linters[idx]) THEN FALSE ELSE typesDirty
    /\ ret' = IF err # NoErr THEN <<>> ELSE Stamp(ret, linters[idx])
    /\ pc' = "record"
    /\ UNCHANGED <<evars, avars, ovars, linters, inIssues, pIssues, idx, running, err, issues, lintErrors, pidx, outIssues,
                   result, runLog, started, recorded, procLog, finLog>>

\* Run, the function given to TrackStage, after runLinterSafe returned.
RecordLinter ==
    /\ pc = "record"
    /\ IF err # NoErr
       THEN /\ lintErrors' = JoinErrors(lintErrors, linters[idx], err)
            /\ UNCHANGED issues
       ELSE /\ issues' = AppendIssues(issues, ret)
            /\ UNCHANGED lintErrors
    /\ idx' = LoopAdvance(idx)
    /\ recorded' = recorded + 1
    /\ pc' = "loop"
    /\ UNCHANGED <<evars, avars, ovars, linters, inIssues, pIssues, running, typesDirty, ret, err, pidx, outIssues, result,
                   runLog, started, procLog, finLog>>

\* processLintResults with issues: processIssues starts.
EnterPipeline ==
    /\ pc = "loop"
    /\ idx > Len(linters)
    /\ Len(issues) # 0
    /\ inIssues' = issues
    /\ pIssues' = issues
    /\ pidx' = 1
    /\ pc' = "process"
    /\ UNCHANGED <<evars, avars, ovars, linters, idx, running, typesDirty, ret, err, issues, lintErrors,
                   outIssues, result, runLog, started, recorded, procLog, finLog>>

\* processLintResults without issues: processIssues is not called.
SkipPipeline ==
    /\ pc = "loop"
    /\ idx > Len(linters)
    /\ Len(issues) = 0
    /\ inIssues' = issues
    /\ outIssues' = <<>>
    /\ pidx' = 1
    /\ pc' = "finish"
    /\ UNCHANGED <<evars, avars, ovars, linters, pIssues, idx, running, typesDirty, ret, err, issues, lintErrors,
                   result, runLog, started, recorded, procLog, finLog>>

\* processIssues: one processor's Process.
ProcessStage ==
    /\ pc = "process"
    /\ pidx <= NumStages
    /\ \E r \in StageResults(pIssues) :
         /\ pIssues' = NextIssues(pIssues, r[1], r[2])
         /\ procLog' = Append(procLog,
                [stage |-> pidx, in |-> pIssues, failed |-> r[2] # NoErr,
                 out |-> pIssues'])
    /\ pidx' = pidx + 1
    /\ UNCHANGED <<evars, avars, ovars, linters, inIssues, issues, pc, idx, running, typesDirty, ret, err, lintErrors,
                   outIssues, result, runLog, started, recorded, finLog>>

\* processIssues returns to processLintResults.
PipelineDone ==
    /\ pc = "process"
    /\ pidx > NumStages
    /\ outIssues' = pIssues
    /\ pidx' = 1
    /\ pc' = "finish"
    /\ UNCHANGED <<evars, avars, ovars, linters, inIssues, pIssues, idx, running, typesDirty, ret, err, issues, lintErrors,
                   result, runLog, started, recorded, procLog, finLog>>

\* processLintResults: one processor's Finish.
FinishStage ==
    /\ pc = "finish"
    /\ pidx <= NumStages
    /\ finLog' = FinishBody(finLog, pidx)
    /\ pidx' = pidx + 1
    /\ UNCHANGED <<evars, avars, ovars, linters, inIssues, pIssues, pc, idx, running, typesDirty, ret, err, issues,
                   lintErrors, outIssues, result, runLog, started, recorded, procLog>>

\* Run returns processLintResults(issues), lintErrors.
ReturnRun ==
    /\ pc = "finish"
    /\ pidx > NumStages
    /\ result' = [issues |-> outIssues, err |-> lintErrors, returned |-> TRUE]
    /\ pc' = "done"
    /\ UNCHANGED <<evars, avars, ovars, linters, inIssues, pIssues, idx, running, typesDirty, ret, err, issues, lintErrors,
                   pidx, outIssues, runLog, started, recorded, procLog, finLog>>

Next ==
    \/ StartLinter
    \/ LinterReturns
    \/ LinterPanics
    \/ AfterLinterRun
    \/ RecordLinter
    \/ EnterPipeline
    \/ SkipPipeline
    \/ ProcessStage
    \/ PipelineDone
    \/ FinishStage
    \/ ReturnRun

Spec == Init /\ [][Next]_vars

\* -------------------------------------------------------- Resolver: actions

\* The runner at rest, while the resolver runs.
RunnerIdle ==
    /\ linters = <<>>
    /\ pc = "idle"
    /\ idx = 1
    /\ running = {}
    /\ typesDirty = FALSE
    /\ ret = <<>>
    /\ err = NoErr
    /\ issues = <<>>
    /\ lintErrors = <<>>
    /\ inIssues = <<>>
    /\ pIssues = <<>>
    /\ pidx = 1
    /\ outIssues = <<>>
    /\ result = NoResult
    /\ runLog = <<>>
    /\ started = [i \in 1..MaxLinters |-> 0]
    /\ recorded = 0
    /\ procLog = <<>>
    /\ finLog = <<>>

InitResolver ==
    /\ RunnerIdle
    /\ AutogenIdle
    /\ OthersIdle
    /\ cfg \in Configs
    /\ epc = "start"
    /\ verr = Nil
    /\ loaded = <<>>
    /\ resultLintersSet = {}
    /\ resolved = NoResolved
    /\ AroundIdle

\* Get: validateEnabledDisabledLintersConfig returns an error, and Get
\* returns nil and the error.
ValidateFails ==
    /\ epc = "start"
    /\ ValidateEnabledDisabledLintersConfig(cfg) # Nil
    /\ verr' = ValidateEnabledDisabledLintersConfig(cfg)
    /\ resolved' = [names |-> {}, err |-> verr', returned |-> TRUE]
    /\ epc' = "failed"
    /\ UNCHANGED <<rvars, avars, ovars, xvars, cfg, loaded, resultLintersSet>>

\* Get: validateEnabledDisabledLintersConfig returns nil.
ValidatePasses ==
    /\ epc = "start"
    /\ ValidateEnabledDisabledLintersConfig(cfg) = Nil
    /\ verr' = Nil
    /\ epc' = "validated"
    /\ UNCHANGED <<rvars, avars, ovars, xvars, cfg, loaded, resultLintersSet, resolved>>

\* Get: build, with what loading each custom linter yields.
BuildSet ==
    /\ epc = "validated"
    /\ \E loads \in [DOMAIN cfg.Custom -> PluginOutcomes] :
         /\ loaded' = loads
         /\ resultLintersSet' = Build(cfg, loads)
    /\ epc' = "built"
    /\ UNCHANGED <<rvars, avars, ovars, xvars, cfg, verr, resolved>>

\* Get, after build: verbosePrintLintersStatus, combineGoAnalysisLinters if
\* optimize is set, and the return of the linters of resultLintersSet with a
\* nil error.
ReturnGet ==
    /\ epc = "built"
    /\ \E opt \in BOOLEAN :
         /\ optimize' = opt
         /\ resultLintersSet' = IF opt THEN CombineGoAnalysisLinters(resultLintersSet)
                                 ELSE resultLintersSet
    /\ cfg' = VerbosePrintLintersStatus(cfg)
    /\ builtSet' = resultLintersSet
    /\ resolved' = [names |-> {lc.name : lc \in resultLintersSet'}, err |-> Nil,
                    returned |-> TRUE]
    /\ epc' = "done"
    /\ UNCHANGED <<rvars, avars, ovars, verr, loaded, newRunner, second>>

\* Manager.GetEnabledLintersMap, as NewRunner calls it: it fails with the
\* error EnabledSet.Get fails with.
GetEnabledLintersMapErr == resolved.err

\* NewRunner returns, Get having returned to it.
NewRunnerReturns ==
    /\ epc \in {"failed", "done"}
    /\ newRunner = "not called"
    /\ \E skipFilesOK \in BOOLEAN, skipDirsOK \in BOOLEAN :
         newRunner' = NewRunnerResult(skipFilesOK, skipDirsOK, GetEnabledLintersMapErr)
    /\ UNCHANGED <<rvars, avars, ovars, cfg, epc, verr, loaded, resultLintersSet, resolved,
                   optimize, builtSet, second>>

\* Get is called once more, on the same EnabledSet with the same plugins.
GetAgain ==
    /\ epc \in {"failed", "done"}
    /\ ~second.returned
    /\ \E opt \in BOOLEAN :
         /\ epc = "done" => opt = optimize
         /\ second' = Get(cfg, loaded, opt)
    /\ cfg' = IF epc = "done" THEN VerbosePrintLintersStatus(cfg) ELSE cfg
    /\ UNCHANGED <<rvars, avars, ovars, epc, verr, loaded, resultLintersSet, resolved,
                   optimize, builtSet, newRunner>>

NextResolver ==
    \/ ValidateFails
    \/ ValidatePasses
    \/ BuildSet
    \/ ReturnGet
    \/ NewRunnerReturns
    \/ GetAgain

SpecResolver == InitResolver /\ [][NextResolver]_vars

\* ------------------------------------------------- Resolver: build by itself

\* EnabledSet.build on any linters configuration, validated or not.
InitBuild ==
    /\ RunnerIdle
    /\ AutogenIdle
    /\ OthersIdle
    /\ cfg \in Configs
    /\ epc = "build"
    /\ verr = Nil
    /\ loaded = <<>>
    /\ resultLintersSet = {}
    /\ resolved = NoResolved
    /\ AroundIdle

BuildDirect ==
    /\ epc = "build"
    /\ \E loads \in [DOMAIN cfg.Custom -> PluginOutcomes] :
         /\ loaded' = loads
         /\ resultLintersSet' = Build(cfg, loads)
    /\ epc' = "builtDirect"
    /\ UNCHANGED <<rvars, avars, ovars, xvars, cfg, verr, resolved>>

NextBuild == BuildDirect

SpecBuild == InitBuild /\ [][NextBuild]_vars

\* --------------------------------------- AutogeneratedExclude stage: actions

\* A new AutogeneratedExclude is given the issues of processIssues.
InitAutogen ==
    /\ RunnerIdle
    /\ ResolverIdle
    /\ OthersIdle
    /\ apc = "process"
    /\ aIn \in SeqsUpTo(AgeIssues, MaxIssues)
    /\ aIdx = 1
    /\ aOut = <<>>
    /\ aErr = Nil
    /\ fileSummaryCache = NewAutogeneratedExclude
    /\ opens = [filePath \in Paths |-> 0]
    /\ decisions = <<>>
    /\ aNext = <<>>

\* filterIssuesErr: one turn of the loop over the issues; the first error of
\* the filter ends it, and Process returns nil and the error.
FilterIssue ==
    /\ apc = "process"
    /\ aIdx <= Len(aIn)
    /\ LET i == aIn[aIdx]
           r == ShouldPassIssue(fileSummaryCache, i)
       IN /\ fileSummaryCache' = r.cache
          /\ opens' = [filePath \in Paths |->
                          IF filePath \in r.opened THEN opens[filePath] + 1
                          ELSE opens[filePath]]
          /\ decisions' = Append(decisions, [issue |-> i, pass |-> r.pass, err |-> r.err])
          /\ IF r.err # Nil
             THEN /\ aErr' = r.err
                  /\ aOut' = <<>>
                  /\ apc' = "returned"
                  /\ UNCHANGED aIdx
             ELSE /\ aOut' = IF r.pass THEN Append(aOut, i) ELSE aOut
                  /\ aIdx' = aIdx + 1
                  /\ UNCHANGED <<aErr, apc>>
    /\ UNCHANGED <<rvars, evars, ovars, aIn, aNext>>

\* filterIssuesErr: the loop is over, Process returns retIssues and nil.
ProcessReturns ==
    /\ apc = "process"
    /\ aIdx > Len(aIn)
    /\ apc' = "returned"
    /\ UNCHANGED <<rvars, evars, ovars, aIn, aIdx, aOut, aErr, fileSummaryCache, opens,
                   decisions, aNext>>

\* processIssues: the issues it goes on with after the stage.
StageDone ==
    /\ apc = "returned"
    /\ aNext' = NextIssues(aIn, aOut, IF aErr = Nil THEN NoErr ELSE StageErr)
    /\ apc' = "done"
    /\ UNCHANGED <<rvars, evars, ovars, aIn, aIdx, aOut, aErr, fileSummaryCache, opens,
                   decisions>>

NextAutogen ==
    \/ FilterIssue
    \/ ProcessReturns
    \/ StageDone

SpecAutogen == InitAutogen /\ [][NextAutogen]_vars

\* ------------------------- AutogeneratedExclude stage: one instance, reused

\* Process is called again on the same AutogeneratedExclude, with one issue;
\* MaxIssues caps the issues one instance decides on in all.
ProcessAgain ==
    /\ apc = "done"
    /\ Len(decisions) < MaxIssues
    /\ \E i \in AgeIssues : aIn' = <<i>>
    /\ apc' = "process"
    /\ aIdx' = 1
    /\ aOut' = <<>>
    /\ aErr' = Nil
    /\ aNext' = <<>>
    /\ UNCHANGED <<rvars, evars, ovars, fileSummaryCache, opens, decisions>>

\* NewAutogeneratedExclude: another instance takes the place of this one.
NewStage ==
    /\ apc = "done"
    /\ decisions # <<>>
    /\ fileSummaryCache' = NewAutogeneratedExclude
    /\ opens' = [filePath \in Paths |-> 0]
    /\ decisions' = <<>>
    /\ aIn' = <<>>
    /\ apc' = "process"
    /\ aIdx' = 1
    /\ aOut' = <<>>
    /\ aErr' = Nil
    /\ aNext' = <<>>
    /\ UNCHANGED <<rvars, evars, ovars>>

NextAutogenTwice ==
    \/ FilterIssue
    \/ ProcessReturns
    \/ StageDone
    \/ ProcessAgain
    \/ NewStage

SpecAutogenTwice == InitAutogen /\ [][NextAutogenTwice]_vars

\* ------------------------------------------ Classification of one file

\* A file that can be opened, of any lines.
InitClassify ==
    /\ RunnerIdle
    /\ ResolverIdle
    /\ AutogenIdle
    /\ PipelineIdle
    /\ SkipDirsIdle
    /\ GovetIdle
    /\ PassesIdle
    /\ cpc = "start"
    /\ content \in SeqsUpTo(Lines, MaxFileLines)
    /\ docErr = Nil
    /\ isGenerated = FALSE

\* getOrCreateFileSummary on a path not in the cache: getDoc, then
\* isGeneratedFileByComment if getDoc returned no error.
Classify ==
    /\ cpc = "start"
    /\ LET d == ScanDoc(content, <<>>)
       IN /\ docErr' = d.err
          /\ isGenerated' = IF d.err = Nil THEN IsGeneratedFileByComment(d.doc)
                            ELSE FALSE
    /\ cpc' = "classified"
    /\ UNCHANGED <<rvars, evars, avars, qvars, svars, gvars, wvars, content>>

NextClassify == Classify

SpecClassify == InitClassify /\ [][NextClassify]_vars

\* ---------------------------------------- The pipeline of NewRunner: actions

\* processLintResults is given the issues of the linters.
InitPipeline ==
    /\ RunnerIdle
    /\ ResolverIdle
    /\ AutogenIdle
    /\ ClassifyIdle
    /\ SkipDirsIdle
    /\ GovetIdle
    /\ PassesIdle
    /\ qpc = "start"
    /\ qidx = 1
    /\ qIn \in PipelineLists
    /\ qIssues = <<>>
    /\ qForm = "relative"
    /\ qLog = <<>>
    /\ qAgIn = <<>>
    /\ qAgOut = <<>>
    /\ qAgErr = FALSE
    /\ qOut = <<>>

\* processLintResults with issues: processIssues starts.
PipelineStarts ==
    /\ qpc = "start"
    /\ Len(qIn) # 0
    /\ qIssues' = qIn
    /\ qpc' = "process"
    /\ UNCHANGED <<rvars, evars, avars, cvars, svars, gvars, wvars, qidx, qIn, qForm, qLog, qAgIn, qAgOut,
                   qAgErr, qOut>>

\* processLintResults without issues: processIssues is not called.
PipelineSkipped ==
    /\ qpc = "start"
    /\ Len(qIn) = 0
    /\ qOut' = <<>>
    /\ qpc' = "done"
    /\ UNCHANGED <<rvars, evars, avars, cvars, svars, gvars, wvars, qidx, qIn, qIssues, qForm, qLog, qAgIn,
                   qAgOut, qAgErr>>

\* processIssues: the Process of the next processor.
RunStage ==
    /\ qpc = "process"
    /\ qidx <= Len(Processors)
    /\ LET name == Processors[qidx]
       IN /\ \E r \in StageOutcomes(name, qIssues) :
                /\ qIssues' = NextIssues(qIssues, r[1], r[2])
                /\ qForm' = IF r[2] = NoErr THEN FormAfter(name, qForm) ELSE qForm
                /\ IF name = "autogenerated_exclude"
                   THEN /\ qAgIn' = qIssues
                        /\ qAgOut' = qIssues'
                        /\ qAgErr' = (r[2] # NoErr)
                   ELSE UNCHANGED <<qAgIn, qAgOut, qAgErr>>
          /\ qLog' = Append(qLog, [name |-> name, form |-> qForm])
    /\ qidx' = qidx + 1
    /\ UNCHANGED <<rvars, evars, avars, cvars, svars, gvars, wvars, qpc, qIn, qOut>>

\* processIssues returns, and processLintResults returns its issues.
PipelineReturns ==
    /\ qpc = "process"
    /\ qidx > Len(Processors)
    /\ qOut' = qIssues
    /\ qpc' = "done"
    /\ UNCHANGED <<rvars, evars, avars, cvars, svars, gvars, wvars, qidx, qIn, qIssues, qForm, qLog, qAgIn,
                   qAgOut, qAgErr>>

NextPipeline ==
    \/ PipelineStarts
    \/ PipelineSkipped
    \/ RunStage
    \/ PipelineReturns

SpecPipeline == InitPipeline /\ [][NextPipeline]_vars

\* ---------------------------------------------------------- SkipDirs: actions

\* NewSkipDirs is called, and Process is to be given a list of issues.
InitSkipDirs ==
    /\ RunnerIdle
    /\ ResolverIdle
    /\ AutogenIdle
    /\ ClassifyIdle
    /\ PipelineIdle
    /\ GovetIdle
    /\ PassesIdle
    /\ spc = "new"
    /\ runArgs \in ArgLists
    /\ sPatterns \in PatternLists
    /\ pathPrefix \in PathPrefixes
    /\ absArgsDirs = <<>>
    /\ sIn \in SkipIssueLists
    /\ sIdx = 1
    /\ sOut = <<>>
    /\ skippedDirsCache = NoSkippedDirsCache
    /\ skippedDirs = NoSkippedDirs
    /\ sPanic = FALSE
    /\ sDecisions = <<>>

\* NewSkipDirs returns an error: a pattern does not compile, or filepath.Abs
\* fails on an argument.
NewSkipDirsFails ==
    /\ spc = "new"
    /\ \E absOK \in BOOLEAN :
          \/ \E k \in DOMAIN sPatterns : ~Compiles(sPatterns[k])
          \/ ~absOK
    /\ spc' = "failed"
    /\ UNCHANGED <<rvars, evars, avars, cvars, qvars, gvars, wvars, runArgs, sPatterns, pathPrefix,
                   absArgsDirs, sIn, sIdx, sOut, skippedDirsCache, skippedDirs, sPanic,
                   sDecisions>>

\* NewSkipDirs returns the processor.
NewSkipDirsReturns ==
    /\ spc = "new"
    /\ \A k \in DOMAIN sPatterns : Compiles(sPatterns[k])
    /\ absArgsDirs' = AbsArgsDirs(runArgs)
    /\ spc' = "process"
    /\ UNCHANGED <<rvars, evars, avars, cvars, qvars, gvars, wvars, runArgs, sPatterns, pathPrefix,
                   sIn, sIdx, sOut, skippedDirsCache, skippedDirs, sPanic, sDecisions>>

\* SkipDirs.Process without patterns: the issues are returned as they are.
SkipDirsNoPatterns ==
    /\ spc = "process"
    /\ Len(sPatterns) = 0
    /\ sOut' = sIn
    /\ spc' = "done"
    /\ UNCHANGED <<rvars, evars, avars, cvars, qvars, gvars, wvars, runArgs, sPatterns, pathPrefix,
                   absArgsDirs, sIn, sIdx, skippedDirsCache, skippedDirs, sPanic,
                   sDecisions>>

\* filterIssues: shouldPassIssue on the next issue.
SkipDirsFilterIssue ==
    /\ spc = "process"
    /\ Len(sPatterns) # 0
    /\ sIdx <= Len(sIn)
    /\ \E absOK \in BOOLEAN :
          LET r == SkipDirsShouldPassIssue(absArgsDirs, sPatterns, pathPrefix,
                                           skippedDirsCache, skippedDirs, sIn[sIdx], absOK)
          IN /\ sOut' = IF r.pass THEN Append(sOut, sIn[sIdx]) ELSE sOut
             /\ skippedDirsCache' = r.cache
             /\ skippedDirs' = r.skipped
             /\ sPanic' = (sPanic \/ r.panic)
             /\ sDecisions' = Append(sDecisions,
                                     [FilePath |-> sIn[sIdx], pass |-> r.pass,
                                      hit |-> r.hit, absOK |-> absOK])
    /\ sIdx' = sIdx + 1
    /\ UNCHANGED <<rvars, evars, avars, cvars, qvars, gvars, wvars, spc, runArgs, sPatterns, pathPrefix,
                   absArgsDirs, sIn>>

\* filterIssues and Process return.
SkipDirsReturns ==
    /\ spc = "process"
    /\ Len(sPatterns) # 0
    /\ sIdx > Len(sIn)
    /\ spc' = "done"
    /\ UNCHANGED <<rvars, evars, avars, cvars, qvars, gvars, wvars, runArgs, sPatterns, pathPrefix,
                   absArgsDirs, sIn, sIdx, sOut, skippedDirsCache, skippedDirs, sPanic,
                   sDecisions>>

NextSkipDirs ==
    \/ NewSkipDirsFails
    \/ NewSkipDirsReturns
    \/ SkipDirsNoPatterns
    \/ SkipDirsFilterIssue
    \/ SkipDirsReturns

SpecSkipDirs == InitSkipDirs /\ [][NextSkipDirs]_vars

\* ------------------------------------------------------------ govet: actions

\* NewGovet calls analyzersFromConfig with the settings of the configuration.
InitGovet ==
    /\ RunnerIdle
    /\ ResolverIdle
    /\ AutogenIdle
    /\ ClassifyIdle
    /\ PipelineIdle
    /\ SkipDirsIdle
    /\ PassesIdle
    /\ gpc = "start"
    /\ govetCfg \in GovetSettings \cup {NilGovetSettings}
    /\ enabledAnalyzers = <<>>

\* analyzersFromConfig with nil settings.
AnalyzersFromNil ==
    /\ gpc = "start"
    /\ govetCfg.nil
    /\ enabledAnalyzers' = AnalyzersFromConfig(govetCfg)
    /\ gpc' = "done"
    /\ UNCHANGED <<rvars, evars, avars, cvars, qvars, svars, wvars, govetCfg>>

\* analyzersFromConfig with settings.
AnalyzersFromSettings ==
    /\ gpc = "start"
    /\ ~govetCfg.nil
    /\ enabledAnalyzers' = AnalyzersFromConfig(govetCfg)
    /\ govetCfg' = WithCheckShadowing(govetCfg)
    /\ gpc' = "done"
    /\ UNCHANGED <<rvars, evars, avars, cvars, qvars, svars, wvars>>

NextGovet ==
    \/ AnalyzersFromNil
    \/ AnalyzersFromSettings

SpecGovet == InitGovet /\ [][NextGovet]_vars

\* ----------------------------------------------- whitespace and lll: actions

\* The linter of NewWhitespace or lll.New is made, and its passes start.
InitPasses ==
    /\ RunnerIdle
    /\ ResolverIdle
    /\ AutogenIdle
    /\ ClassifyIdle
    /\ PipelineIdle
    /\ SkipDirsIdle
    /\ GovetIdle
    /\ wLinter \in {"whitespace", "lll"}
    /\ wpc = [p \in Passes |-> "run"]
    /\ wIssues = [p \in Passes |-> <<>>]
    /\ wErr = [p \in Passes |-> FALSE]
    /\ mu = 0
    /\ wLen = [p \in Passes |-> 0]
    /\ resIssues = <<>>
    /\ reported = <<>>

\* The Run of the analyzer up to the lock: it returns an error, or returns
\* without issues, or goes on to append its issues.
PassRuns(p) ==
    /\ wpc[p] = "run"
    /\ \E r \in PassResults(wLinter, p) :
          /\ wIssues' = [wIssues EXCEPT ![p] = r.issues]
          /\ wErr' = [wErr EXCEPT ![p] = r.err]
          /\ wpc' = [wpc EXCEPT ![p] =
                        IF r.err \/ Len(r.issues) = 0 THEN "done" ELSE "lock"]
    /\ UNCHANGED <<rvars, evars, avars, cvars, qvars, svars, gvars, wLinter, mu, wLen,
                   resIssues, reported>>

\* mu.Lock()
LockNoWait(p) ==
    /\ wpc[p] = "lock"
    /\ mu' = p
    /\ wpc' = [wpc EXCEPT ![p] = "read"]
    /\ UNCHANGED <<rvars, evars, avars, cvars, qvars, svars, gvars, wLinter, wIssues, wErr,
                   wLen, resIssues, reported>>

Lock(p) ==
    /\ wpc[p] = "lock"
    /\ mu = 0
    /\ mu' = p
    /\ wpc' = [wpc EXCEPT ![p] = "read"]
    /\ UNCHANGED <<rvars, evars, avars, cvars, qvars, svars, gvars, wLinter, wIssues, wErr,
                   wLen, resIssues, reported>>

\* append(resIssues, issues...): the slice is read.
AppendReads(p) ==
    /\ wpc[p] = "read"
    /\ wLen' = [wLen EXCEPT ![p] = Len(resIssues)]
    /\ wpc' = [wpc EXCEPT ![p] = "write"]
    /\ UNCHANGED <<rvars, evars, avars, cvars, qvars, svars, gvars, wLinter, wIssues, wErr,
                   mu, resIssues, reported>>

\* resIssues = append(resIssues, issues...): the issues are written after the
\* elements that were read, and the slice is assigned.
AppendWrites(p) ==
    /\ wpc[p] = "write"
    /\ resIssues' = SubSeq(resIssues, 1, wLen[p]) \o wIssues[p]
    /\ wpc' = [wpc EXCEPT ![p] = "unlock"]
    /\ UNCHANGED <<rvars, evars, avars, cvars, qvars, svars, gvars, wLinter, wIssues, wErr,
                   mu, wLen, reported>>

\* mu.Unlock(), and Run returns.
Unlock(p) ==
    /\ wpc[p] = "unlock"
    /\ mu' = 0
    /\ wpc' = [wpc EXCEPT ![p] = "done"]
    /\ UNCHANGED <<rvars, evars, avars, cvars, qvars, svars, gvars, wLinter, wIssues, wErr,
                   wLen, resIssues, reported>>

\* The issues reporter is called after the passes: it returns resIssues.
ReportIssues ==
    /\ \A p \in Passes : wpc[p] = "done"
    /\ reported' = resIssues
    /\ wpc' = [p \in Passes |-> "reported"]
    /\ UNCHANGED <<rvars, evars, avars, cvars, qvars, svars, gvars, wLinter, wIssues, wErr,
                   mu, wLen, resIssues>>

NextPasses ==
    \/ \E p \in Passes : PassRuns(p)
    \/ \E p \in Passes : Lock(p)
    \/ \E p \in Passes : AppendReads(p)
    \/ \E p \in Passes : AppendWrites(p)
    \/ \E p \in Passes : Unlock(p)
    \/ ReportIssues

SpecPasses == InitPasses /\ [][NextPasses]_vars

\* ---------------------------------------------------------- Runner: claims

\* The diagnostics of the linters that returned without error, in the order
\* the linters ran, each with the FromLinter it must leave the runner with.
RECURSIVE SucceededIssues(_)
SucceededIssues(log) ==
    IF log = <<>> THEN <<>>
    ELSE LET e == Head(log)
             own == IF e.outcome # "ok" THEN <<>>
                    ELSE [i \in DOMAIN e.issues |->
                            [Text |-> e.issues[i].Text,
                             FromLinter |-> IF e.issues[i].FromLinter = ""
                                            THEN linters[e.linter]
                                            ELSE e.issues[i].FromLinter]]
         IN own \o SucceededIssues(Tail(log))

Failed(log) == {j \in DOMAIN log : log[j].outcome # "ok"}

Succeeded(log) == {j \in DOMAIN log : log[j].outcome = "ok"}

\* The number of diagnostics returned by the linters that succeeded before
\* the j-th entry of the log.
RECURSIVE Offset(_, _)
Offset(log, j) ==
    IF j <= 1 THEN 0
    ELSE Offset(log, j - 1)
         + (IF log[j - 1].outcome = "ok" THEN Len(log[j - 1].issues) ELSE 0)

ProcessCount(k) == Cardinality({j \in DOMAIN procLog : procLog[j].stage = k})

FinishCount(k) == Cardinality({j \in DOMAIN finLog : finLog[j] = k})

\* C1: once Run has returned, every linter of the list was executed, also
\* those after a linter that panicked or returned an error; every diagnostic
\* of every linter that succeeded is in the sequence handed to the pipeline;
\* and the returned error holds "can't run linter <name>" for every linter
\* that failed.
C1_FailureIsolation ==
    result.returned =>
        /\ Len(runLog) = Len(linters)
        /\ \A j \in Failed(runLog) :
             /\ \A k \in (j + 1)..Len(linters) : started[k] = 1
             /\ \E n \in DOMAIN result.err :
                  result.err[n] = CantRun(linters[runLog[j].linter])
        /\ \A j \in Succeeded(runLog) :
             \A i \in DOMAIN runLog[j].issues :
                \E n \in DOMAIN inIssues : inIssues[n].Text = runLog[j].issues[i].Text
        /\ Len(inIssues) = Offset(runLog, Len(runLog) + 1)

C1_Witness ==
    /\ result.returned
    /\ Len(runLog) >= 2
    /\ runLog[1].outcome = "panic"
    /\ runLog[2].outcome = "ok"
    /\ runLog[2].issues # <<>>

\* C2: between two linters, when the linter that has just been handled
\* changes types, the type information of the shared context has been
\* cleared before the next linter's Run begins, whatever the outcome was.
C2_TypesClearedBeforeNext ==
    (pc = "loop" /\ 1 < idx /\ idx <= Len(linters)
        /\ DoesChangeTypes(linters[idx - 1]))
    => ~typesDirty

\* C3: every diagnostic handed to the pipeline has a non-empty FromLinter; a
\* diagnostic returned with an empty FromLinter carries the name of the linter
\* that returned it, and one returned with a FromLinter keeps it.
C3_FromLinterStamped ==
    /\ \A n \in DOMAIN inIssues : inIssues[n].FromLinter # ""
    /\ pc \in {"process", "finish", "done"} =>
         \A j \in Succeeded(runLog) :
            \A i \in DOMAIN runLog[j].issues :
               LET raw == runLog[j].issues[i]
                   got == inIssues[Offset(runLog, j) + i]
               IN /\ got.Text = raw.Text
                  /\ raw.FromLinter = "" => got.FromLinter = linters[runLog[j].linter]
                  /\ raw.FromLinter # "" => got.FromLinter = raw.FromLinter

C3_Witness ==
    /\ pc = "process"
    /\ \E j \in Succeeded(runLog) : runLog[j].issues = <<Prestamped, Unstamped>>
    /\ Len(inIssues) >= 3

\* C4: a processor whose Process returned an error leaves the issues as it
\* got them: the next processor gets the same sequence, every later processor
\* still runs, and a failure of the last processor leaves its input as the
\* result.
C4_StageErrorPassesThrough ==
    /\ \A j \in DOMAIN procLog :
         procLog[j].failed =>
            /\ procLog[j].out = procLog[j].in
            /\ j < Len(procLog) => procLog[j + 1].in = procLog[j].in
            /\ (result.returned /\ j = Len(procLog)) => result.issues = procLog[j].in
    /\ (result.returned /\ procLog # <<>>) =>
         /\ Len(procLog) = NumStages
         /\ \A j \in DOMAIN procLog : procLog[j].stage = j

C4_Witness ==
    /\ result.returned
    /\ Len(procLog) >= 2
    /\ procLog[1].failed
    /\ Len(procLog[1].in) >= 2
    /\ ~procLog[2].failed
    /\ result.issues # <<>>

\* C5 as stated: in every call of Run every processor's Process is invoked
\* exactly once.
C5_Original ==
    result.returned => \A k \in 1..NumStages : ProcessCount(k) = 1

\* C5 as amended: Process is invoked at most once per processor and only after
\* every linter has been handled; when the linters that succeeded returned at
\* least one diagnostic, every processor's Process is invoked exactly once and
\* the first one gets the concatenation, in linter order, of their
\* diagnostics; when they returned none, no Process is invoked and Run
\* returns no diagnostics.
C5_PipelineOnce ==
    /\ \A k \in 1..NumStages : ProcessCount(k) <= 1
    /\ procLog # <<>> =>
         /\ idx > Len(linters)
         /\ running = {}
         /\ recorded = Len(linters)
         /\ Len(runLog) = Len(linters)
         /\ procLog[1].in = SucceededIssues(runLog)
    /\ result.returned =>
         IF SucceededIssues(runLog) # <<>>
         THEN \A k \in 1..NumStages : ProcessCount(k) = 1
         ELSE procLog = <<>> /\ result.issues = <<>>

C5_Witness ==
    /\ result.returned
    /\ Len(runLog) >= 2
    /\ runLog[1].outcome = "ok" /\ runLog[1].issues # <<>>
    /\ runLog[2].outcome = "ok" /\ runLog[2].issues # <<>>
    /\ \A k \in 1..NumStages : ProcessCount(k) = 1

\* C6: Finish is invoked at most once per processor and only when no Process
\* is still to come; once Run has returned it was invoked exactly once on
\* every processor, also on those whose Process returned an error, and Run
\* returns the issues as the last Process left them.
C6_FinishOnce ==
    /\ \A k \in 1..NumStages : FinishCount(k) <= 1
    /\ finLog # <<>> =>
         /\ pc \in {"finish", "done"}
         /\ Len(procLog) \in {0, NumStages}
    /\ result.returned =>
         /\ \A k \in 1..NumStages : FinishCount(k) = 1
         /\ result.issues =
              IF procLog = <<>> THEN <<>> ELSE procLog[Len(procLog)].out

C6_Witness ==
    /\ result.returned
    /\ \E j \in DOMAIN procLog : procLog[j].failed
    /\ result.issues # <<>>
    /\ Len(finLog) = NumStages

\* C7: at most one linter is executing at any time; the linters are executed
\* in the order of the list, each at most once and, once Run has returned,
\* each exactly once; a linter's Run starts only after every linter before it
\* has been handled completely.
C7_Sequential ==
    /\ Cardinality(running) <= 1
    /\ \A i \in 1..MaxLinters : started[i] <= 1
    /\ \A j \in DOMAIN runLog : runLog[j].linter = j
    /\ running # {} =>
         /\ running = {idx}
         /\ recorded = idx - 1
         /\ Len(runLog) = idx - 1
         /\ \A i \in 1..MaxLinters : started[i] = (IF i <= idx THEN 1 ELSE 0)
    /\ result.returned =>
         /\ recorded = Len(linters)
         /\ \A i \in 1..Len(linters) : started[i] = 1

C7_Witness ==
    /\ pc = "linterRun"
    /\ idx = 2
    /\ runLog[1].outcome = "error"

\* C8: the error Run returns is nil exactly when no linter failed; it holds
\* one "can't run linter" entry, followed by the cause, for every linter that
\* failed; and beside a non-nil error the diagnostics of the linters that
\* succeeded are processed by every processor and the outcome is returned.
C8_AggregateError ==
    result.returned =>
        /\ (result.err = <<>>) <=> (Failed(runLog) = {})
        /\ Len(result.err) = 2 * Cardinality(Failed(runLog))
        /\ \A j \in Failed(runLog) :
             Cardinality({n \in DOMAIN result.err :
                             result.err[n] = CantRun(linters[runLog[j].linter])}) = 1
        /\ (result.err # <<>> /\ SucceededIssues(runLog) # <<>>) =>
             /\ Len(procLog) = NumStages
             /\ procLog[1].in = SucceededIssues(runLog)
             /\ result.issues = procLog[NumStages].out

C8_Witness ==
    /\ result.returned
    /\ Cardinality(Failed(runLog)) = 1
    /\ Cardinality(Succeeded(runLog)) = 1
    /\ result.err # <<>>
    /\ result.issues # <<>>

\* -------------------------------------------------------- Resolver: claims

\* The error kinds of the specification: the unknown-task error is the one of
\* validateLintersNames, every other validation error is a configuration
\* conflict.
IsConfigConflict(e) == e \notin {Nil, "unknown linters"}

AllNamesKnown(c) ==
    /\ \A i \in DOMAIN c.Enable : GetLinterConfigs(c.Enable[i]) # {}
    /\ \A i \in DOMAIN c.Disable : GetLinterConfigs(c.Disable[i]) # {}

\* C9: once Get has returned without error, no linter that an entry of the
\* disable list denotes, by name or by alternative name, is in the result.
C9_DisabledNotEnabled ==
    (resolved.returned /\ resolved.err = Nil) =>
        \A i \in DOMAIN cfg.Disable :
            \A lc \in GetLinterConfigs(cfg.Disable[i]) :
                lc.name \notin resolved.names

\* C10 as stated: validation fails with a configuration conflict whenever an
\* entry of the enable list and an entry of the disable list denote, through
\* names or alternative names, the same linter.
C10_Original ==
    epc # "start" =>
        ((\E i \in DOMAIN cfg.Enable : \E j \in DOMAIN cfg.Disable :
             GetLinterConfigs(cfg.Enable[i]) \cap GetLinterConfigs(cfg.Disable[j]) # {})
         => IsConfigConflict(verr))

\* C10 as amended: validation fails whenever the same name is an entry of the
\* enable list and of the disable list, and with a configuration conflict
\* when every name of both lists is known; the entries are compared as
\* written, not through alternative names.
C10_SameNameConflict ==
    epc # "start" =>
        ((\E i \in DOMAIN cfg.Enable : \E j \in DOMAIN cfg.Disable :
             cfg.Enable[i] = cfg.Disable[j])
         => /\ verr # Nil
            /\ AllNamesKnown(cfg) => IsConfigConflict(verr))

C10_Witness ==
    /\ epc = "failed"
    /\ verr = "can't be disabled and enabled at one moment"
    /\ Contains(cfg.Enable, "megacheck")
    /\ Contains(cfg.Disable, "megacheck")

\* The names of the linters build returned.
ResultNames == {lc.name : lc \in resultLintersSet}

\* An entry of the list denotes the linter, by its name or an alternative name.
Denotes(names, lc) ==
    \E i \in DOMAIN names : names[i] = lc.name \/ names[i] \in lc.aliases

\* A custom linter of that name was loaded.
LoadedAs(name) == \E i \in DOMAIN loaded : loaded[i] = name

InNamedPreset(c, lc) == \E i \in DOMAIN c.Presets : c.Presets[i] \in lc.presets

\* C11: after build, a linter of the registry that neither the fast flag, nor
\* the enable list, nor the disable list, nor a custom linter touches is in
\* the result exactly when it is in the seed or in a named preset; the seed
\* is empty with presets, else every linter with enable-all, else empty with
\* disable-all, else the linters enabled by default.
C11_SeedAndPresets ==
    epc = "builtDirect" =>
        \A lc \in Registry :
            (/\ ~(cfg.Fast /\ lc.isSlow)
             /\ ~Denotes(cfg.Enable, lc)
             /\ ~Denotes(cfg.Disable, lc)
             /\ ~LoadedAs(lc.name))
            => (lc \in resultLintersSet <=>
                  \/ InNamedPreset(cfg, lc)
                  \/ /\ Len(cfg.Presets) = 0
                     /\ \/ cfg.EnableAll
                        \/ ~cfg.DisableAll /\ lc.enabledByDefault)

\* With presets and enable-all, a linter of no named preset is left out, and a
\* linter of a named preset that is not enabled by default is in.
C11_Witness ==
    /\ epc = "builtDirect"
    /\ cfg.Presets = <<"style">>
    /\ cfg.EnableAll
    /\ cfg.Enable = <<>> /\ cfg.Disable = <<>> /\ ~cfg.Fast
    /\ "govet" \notin ResultNames
    /\ "lll" \in ResultNames

C13_UnknownNameFirst ==
    (epc # "start" /\ ~AllNamesKnown(cfg)) =>
        /\ verr = "unknown linters"
        /\ epc = "failed"
        /\ resolved.returned
        /\ resolved.err = "unknown linters"
        /\ resolved.names = {}
        /\ resultLintersSet = {}

C13_Witness ==
    /\ epc = "failed"
    /\ verr = "unknown linters"
    /\ Contains(cfg.Disable, "nosuch")
    /\ cfg.EnableAll /\ cfg.DisableAll
    /\ cfg.Presets = <<"nosuchpreset">>

\* The configurations of C14: enable-all with disable-all; an unknown preset;
\* presets with enable-all; disable-all with neither an enable list nor a
\* preset; disable-all with a disable list.
BreaksOptionRule(c) ==
    \/ c.EnableAll /\ c.DisableAll
    \/ \E i \in DOMAIN c.Presets : c.Presets[i] \notin AllPresets
    \/ Len(c.Presets) # 0 /\ c.EnableAll
    \/ c.DisableAll /\ Len(c.Enable) = 0 /\ Len(c.Presets) = 0
    \/ c.DisableAll /\ Len(c.Disable) # 0

\* C14 as stated: validation fails with a configuration conflict for every
\* configuration that breaks one of these rules.
C14_Original ==
    (epc # "start" /\ BreaksOptionRule(cfg)) => IsConfigConflict(verr)

\* C14 as amended: validation fails for every configuration that breaks one
\* of these rules, and with a configuration conflict when every name of the
\* enable list and of the disable list is known.
C14_OptionConflicts ==
    (epc # "start" /\ BreaksOptionRule(cfg)) =>
        /\ verr # Nil
        /\ epc = "failed"
        /\ AllNamesKnown(cfg) => IsConfigConflict(verr)

C14_Witness ==
    /\ epc = "failed"
    /\ verr = "--presets is incompatible with --enable-all"
    /\ cfg.Enable # <<>>

\* C15: for a configuration with enable-all and an enable list, whose names
\* are known, without presets, without disable-all and without a name in
\* both lists, validation fails with a configuration conflict exactly when
\* the fast flag is not set, and passes when it is set.
C15_EnableAllWithEnable ==
    (/\ epc # "start"
     /\ cfg.EnableAll
     /\ Len(cfg.Enable) # 0
     /\ AllNamesKnown(cfg)
     /\ Len(cfg.Presets) = 0
     /\ ~cfg.DisableAll
     /\ ~\E i \in DOMAIN cfg.Enable : Contains(cfg.Disable, cfg.Enable[i]))
    => /\ IsConfigConflict(verr) <=> ~cfg.Fast
       /\ cfg.Fast => verr = Nil
       /\ ~cfg.Fast => verr = "can't combine options --enable-all and --enable"

C15_Witness ==
    /\ epc = "validated"
    /\ cfg.EnableAll
    /\ cfg.Fast
    /\ Len(cfg.Enable) = 2
    /\ cfg.Disable # <<>>

\* C16: when validation fails, Get returns the error and no linter, build is
\* never called (no set, no plugin loaded), NewRunner returns an error and
\* not a runner, and no linter is run.
C16_FailedValidationStops ==
    /\ epc = "failed" =>
          /\ verr # Nil
          /\ resolved = [names |-> {}, err |-> verr, returned |-> TRUE]
          /\ resultLintersSet = {}
          /\ builtSet = {}
          /\ loaded = <<>>
          /\ newRunner \in {"not called", "error"}
          /\ pc = "idle" /\ runLog = <<>> /\ running = {}
    /\ newRunner = "runner" => (epc = "done" /\ verr = Nil /\ resolved.err = Nil)

C16_Witness ==
    /\ epc = "failed"
    /\ newRunner = "error"
    /\ verr = "can't combine options --disable-all and --disable"

\* C17: every custom linter that was loaded is in the set build returns, and
\* in what Get returns without optimization, under its name, and no linter of
\* the registry with that name is left in it.
C17_CustomLintersMerged ==
    (epc = "built" \/ (epc = "done" /\ ~optimize)) =>
        \A i \in DOMAIN loaded :
            loaded[i] # "error" =>
                /\ \E lc \in resultLintersSet : lc.name = loaded[i] /\ lc.custom
                /\ \A lc \in resultLintersSet : lc.name = loaded[i] => lc.custom
                /\ epc = "done" => loaded[i] \in resolved.names

C17_Witness ==
    /\ epc = "done"
    /\ ~optimize
    /\ loaded = <<"govet">>
    /\ ~Contains(cfg.Disable, "govet")
    /\ ~cfg.DisableAll
    /\ cfg.Presets = <<>>
    /\ \E lc \in resultLintersSet : lc.name = "govet" /\ lc.custom

\* C18: a second call of Get, with the same configuration, registry, plugins
\* and optimize flag, returns the same set of linter names, or the same
\* error, as the first.
C18_GetTwice ==
    second.returned =>
        /\ second.names = resolved.names
        /\ second.err = resolved.err

C18_Witness ==
    /\ second.returned
    /\ optimize
    /\ Len(cfg.Presets) = 2
    /\ MetaLinterName \in second.names
    /\ "legacy" \in second.names

\* The linters combineGoAnalysisLinters merges: the go/analysis linters of
\* the set that do not load the whole program.
Eligible(m) == {lc \in m : lc.goanalysis /\ ~lc.wholeProgram}

\* C19: with optimization, when build returned two or more go/analysis
\* linters that do not load the whole program, Get returns the set without
\* them and with exactly one metalinter that wraps them and is in the union
\* of their presets, every other linter unchanged; with fewer than two the
\* set is the one build returned; so it is without optimization.
C19_Combine ==
    epc = "done" =>
        IF optimize /\ Cardinality(Eligible(builtSet)) >= 2
        THEN /\ \A lc \in Eligible(builtSet) : lc \notin resultLintersSet
             /\ \A lc \in builtSet \ Eligible(builtSet) : lc \in resultLintersSet
             /\ \E ml \in resultLintersSet :
                   /\ ml.name = MetaLinterName
                   /\ ml.wraps = {lc.name : lc \in Eligible(builtSet)}
                   /\ ml.presets = UNION {lc.presets : lc \in Eligible(builtSet)}
                   /\ resultLintersSet = (builtSet \ Eligible(builtSet)) \cup {ml}
             /\ resolved.names =
                   {lc.name : lc \in builtSet \ Eligible(builtSet)} \cup {MetaLinterName}
        ELSE /\ resultLintersSet = builtSet
             /\ resolved.names = {lc.name : lc \in builtSet}

C19_Witness ==
    /\ epc = "done"
    /\ optimize
    /\ "unused" \in resolved.names
    /\ "legacy" \in resolved.names
    /\ \E ml \in resultLintersSet :
          /\ ml.wraps = {"plug", "govet", "gosimple", "lll"}
          /\ ml.presets = {"bugs", "style"}

\* The typecheck issues of a list, in their order.
TypecheckIssues(list) == SelectSeq(list, LAMBDA i : i.FromLinter = "typecheck")

\* C20: the AutogeneratedExclude stage keeps every typecheck issue, without
\* an error, whatever its file: shouldPassIssue passes it with a nil error
\* and without looking at the file, Process returns all of them when it
\* returns no error, and the issues processIssues goes on with hold all of
\* them in every case.
C20_TypecheckKept ==
    /\ \A k \in DOMAIN decisions :
          decisions[k].issue.FromLinter = "typecheck" =>
              decisions[k].pass /\ decisions[k].err = Nil
    /\ (\A k \in DOMAIN aIn : aIn[k].FromLinter = "typecheck") =>
          /\ aErr = Nil
          /\ fileSummaryCache = NewAutogeneratedExclude
          /\ \A filePath \in Paths : opens[filePath] = 0
    /\ (apc \in {"returned", "done"} /\ aErr = Nil) =>
          TypecheckIssues(aOut) = TypecheckIssues(aIn)
    /\ apc = "done" => TypecheckIssues(aNext) = TypecheckIssues(aIn)

C20_Witness ==
    /\ apc = "done"
    /\ aErr = Nil
    /\ Len(aIn) = 3
    /\ aIn[1] = [FromLinter |-> "typecheck", FilePath |-> "gen.go"]
    /\ aIn[2] = [FromLinter |-> "govet", FilePath |-> "gen.go"]
    /\ aIn[3].FromLinter = "typecheck"
    /\ aIn[3].FilePath \in {"", "missing.go", "dir/yacctab"}
    /\ aOut = <<aIn[1], aIn[3]>>
    /\ aNext = aOut

\* The lines that are comments of Go, and those of them that hold one of the
\* marker phrases in some letter case.
LineComments ==
    {"// Code generated by tool; DO NOT EDIT.", "  // AUTOGENERATED FILE",
     "// hand written"}

BlockComments == {"/* do not edit */"}

WithMarker ==
    {"// Code generated by tool; DO NOT EDIT.", "  // AUTOGENERATED FILE",
     "/* do not edit */"}

PackageLines == {"package p", "package p // do not edit"}

\* The leading block of a file: its lines before the first line that is not
\* of the given kinds.
RECURSIVE LeadingBlock(_, _)
LeadingBlock(lines, kinds) ==
    IF lines = <<>> \/ Head(lines) \notin kinds THEN <<>>
    ELSE <<Head(lines)>> \o LeadingBlock(Tail(lines), kinds)

HasMarkedLine(block, comments) ==
    \E k \in DOMAIN block : block[k] \in comments /\ block[k] \in WithMarker

\* C21 as stated: a file is classified generated exactly when its leading
\* block, the lines before the first line that is neither blank, nor a
\* comment, nor a package declaration, has a comment with a marker phrase in
\* any letter case.
C21_Original ==
    (cpc = "classified" /\ docErr = Nil) =>
        (isGenerated <=>
            HasMarkedLine(
                LeadingBlock(content, {""} \cup LineComments \cup BlockComments
                                          \cup PackageLines),
                LineComments \cup BlockComments))

\* C21 as amended: a file is classified generated exactly when its leading
\* block, the lines before the first line that, trimmed, is neither empty,
\* nor starts with "//", nor starts with "package", has a line starting with
\* "//" whose text holds a marker phrase in any letter case; a block comment
\* ends the leading block and a marker after the leading block does not count.
C21_LineCommentMarker ==
    (cpc = "classified" /\ docErr = Nil) =>
        (isGenerated <=>
            HasMarkedLine(LeadingBlock(content, {""} \cup LineComments \cup PackageLines),
                          LineComments))

C21_Witness ==
    /\ cpc = "classified"
    /\ docErr = Nil
    /\ isGenerated
    /\ content = <<"package p", "  // AUTOGENERATED FILE", "func f() {}">>

\* What shouldPassIssue decided for the issues that are not typecheck ones.
FileDecisions == {k \in DOMAIN decisions : decisions[k].issue.FromLinter # "typecheck"}

\* C23: one AutogeneratedExclude opens a file at most once per path; the
\* decisions it takes for the issues of one path, typecheck ones aside, are
\* all the same (a failed classification is an error, not a decision); and
\* its cache holds only entries for paths of issues it was given itself: the
\* cache of a new instance is empty.
C23_ClassifiedOnce ==
    /\ \A filePath \in Paths : opens[filePath] <= 1
    /\ \A k \in FileDecisions, n \in FileDecisions :
          (/\ decisions[k].issue.FilePath = decisions[n].issue.FilePath
           /\ decisions[k].err = Nil
           /\ decisions[n].err = Nil)
          => decisions[k].pass = decisions[n].pass
    /\ \A filePath \in Paths :
          (fileSummaryCache[filePath] # "absent" \/ opens[filePath] # 0) =>
              \E k \in FileDecisions : decisions[k].issue.FilePath = filePath
    /\ decisions = <<>> => fileSummaryCache = NewAutogeneratedExclude

C23_Witness ==
    /\ apc = "done"
    /\ Len(decisions) = 3
    /\ Len(aIn) = 1
    /\ \A k \in 1..3 :
          decisions[k] = [issue |-> [FromLinter |-> "govet", FilePath |-> "gen.go"],
                          pass |-> FALSE, err |-> Nil]
    /\ opens["gen.go"] = 1
    /\ fileSummaryCache["gen.go"] = "generated"

\* The fake files of goyacc, by their base names.
SpecialPaths == {"dir/yacctab", "yaccpar", "NONE"}

\* C24: an issue that is not a typecheck one and whose file has the base
\* name yacctab, yaccpar or NONE is dropped without an error, the file is
\* never opened and no cache entry is made for it, whatever the file holds.
C24_SpecialFilesDropped ==
    /\ \A k \in FileDecisions :
          decisions[k].issue.FilePath \in SpecialPaths =>
              ~decisions[k].pass /\ decisions[k].err = Nil
    /\ \A filePath \in SpecialPaths :
          opens[filePath] = 0 /\ fileSummaryCache[filePath] = "absent"
    /\ (apc \in {"returned", "done"} /\ aErr = Nil) =>
          \A k \in DOMAIN aOut :
              aOut[k].FilePath \in SpecialPaths => aOut[k].FromLinter = "typecheck"

C24_Witness ==
    /\ apc = "done"
    /\ aErr = Nil
    /\ aIn = <<[FromLinter |-> "govet", FilePath |-> "dir/yacctab"],
               [FromLinter |-> "govet", FilePath |-> "yaccpar"],
               [FromLinter |-> "govet", FilePath |-> "NONE"]>>
    /\ aOut = <<>>
    /\ aNext = <<>>

\* The issue is in the list.
InList(list, i) == \E k \in DOMAIN list : list[k] = i

\* The issues of the generated file that are not typecheck ones.
InGeneratedFile(i) == i.FromLinter # "typecheck" /\ i.FilePath = "gen.go"

\* C22 as stated: an issue of a generated file that a rule of the user
\* includes is still there after AutogeneratedExclude.
C22_Original ==
    \A k \in DOMAIN qAgIn :
        (InGeneratedFile(qAgIn[k]) /\ qAgIn[k].Rule = "include")
        => InList(qAgOut, qAgIn[k])

\* C22 as amended: an issue of a generated file, other than a typecheck one,
\* is dropped by AutogeneratedExclude whether or not a rule of the user
\* includes it, and is not in what the pipeline returns; it stays only when
\* AutogeneratedExclude returns an error, and then every issue it was given
\* stays.
C22_GeneratedDroppedAnyway ==
    /\ \A k \in DOMAIN qAgIn :
          (InGeneratedFile(qAgIn[k]) /\ ~qAgErr) =>
              /\ ~InList(qAgOut, qAgIn[k])
              /\ ~InList(qIssues, qAgIn[k])
              /\ qpc = "done" => ~InList(qOut, qAgIn[k])
    /\ qAgErr => qAgOut = qAgIn
    /\ qpc = "done" =>
          \A k \in DOMAIN qIn :
              (InGeneratedFile(qIn[k]) /\ ~qAgErr) => ~InList(qOut, qIn[k])

C22_Witness ==
    /\ qpc = "done"
    /\ ~qAgErr
    /\ Len(qAgIn) = 2
    /\ InGeneratedFile(qAgIn[1]) /\ qAgIn[1].Rule = "include"
    /\ InGeneratedFile(qAgIn[2]) /\ qAgIn[2].Rule = "none"
    /\ qAgOut = <<>>
    /\ qOut = <<>>

\* The positions of the log at which the Process of that processor ran.
Ran(name) == {k \in DOMAIN qLog : qLog[k].name = name}

\* The first processor has run before the second whenever the second has run,
\* and both run once when the pipeline has run.
Before(a, b) ==
    /\ \A n \in Ran(b) : \E k \in Ran(a) : k < n
    /\ \A k \in Ran(a), n \in Ran(b) : k < n
    /\ (qpc = "done" /\ qIn # <<>>) =>
          Cardinality(Ran(a)) = 1 /\ Cardinality(Ran(b)) = 1

\* C26: cgo, then filename_unadjuster, run before every other processor;
\* then path_prettifier; then skip_files and skip_dirs; then
\* autogenerated_exclude; then identifier_marker; then exclude and
\* exclude_rules; then nolint.
C26_EarlyStagesOrder ==
    /\ Before("cgo", "filename_unadjuster")
    /\ \A k \in DOMAIN qLog :
          qLog[k].name \notin {"cgo", "filename_unadjuster"} =>
              Ran("cgo") # {} /\ Ran("filename_unadjuster") # {}
              /\ \A n \in Ran("filename_unadjuster") : n < k
    /\ Before("filename_unadjuster", "path_prettifier")
    /\ Before("path_prettifier", "skip_files")
    /\ Before("path_prettifier", "skip_dirs")
    /\ Before("skip_files", "autogenerated_exclude")
    /\ Before("skip_dirs", "autogenerated_exclude")
    /\ Before("autogenerated_exclude", "identifier_marker")
    /\ Before("identifier_marker", "exclude")
    /\ Before("identifier_marker", "exclude_rules")
    /\ Before("exclude", "nolint")
    /\ Before("exclude_rules", "nolint")

C26_Witness ==
    /\ qpc = "done"
    /\ Len(qLog) = 21
    /\ Len(qOut) = 2
    /\ qLog[1].name = "cgo"
    /\ qLog[10].name = "nolint"

\* C27 as stated: fixer runs after path_shortener and after path_prefixer.
C27_Original ==
    /\ Before("path_shortener", "fixer")
    /\ Before("path_prefixer", "fixer")

\* C27 as amended: fixer runs after path_shortener and before path_prefixer,
\* on paths that are shortened and not yet prefixed.
C27_FixerBeforePrefixer ==
    /\ Before("path_shortener", "fixer")
    /\ Before("fixer", "path_prefixer")
    /\ \A k \in Ran("fixer") : qLog[k].form = "shortened"

C27_Witness ==
    /\ qpc = "done"
    /\ Len(qOut) = 1
    /\ qForm = "prefixed"
    /\ \E k \in Ran("fixer") : qLog[k].form = "shortened"

\* C28 as stated: source_code and severity_rules both run before
\* path_shortener and path_prefixer, on paths not yet shortened.
C28_Original ==
    /\ Before("source_code", "path_shortener")
    /\ Before("source_code", "path_prefixer")
    /\ Before("severity_rules", "path_shortener")
    /\ Before("severity_rules", "path_prefixer")

\* C28 as amended: source_code runs before path_shortener and path_prefixer,
\* on relative paths; severity_rules runs after path_shortener and before
\* path_prefixer, on shortened paths.
C28_SourceCodeAndSeverity ==
    /\ Before("source_code", "path_shortener")
    /\ Before("source_code", "path_prefixer")
    /\ Before("path_shortener", "severity_rules")
    /\ Before("severity_rules", "path_prefixer")
    /\ \A k \in Ran("source_code") : qLog[k].form = "relative"
    /\ \A k \in Ran("severity_rules") : qLog[k].form = "shortened"

C28_Witness ==
    /\ qpc = "done"
    /\ Len(qIn) = 2
    /\ Len(qOut) = 1
    /\ \E k \in Ran("severity_rules") : qLog[k].form = "shortened"
    /\ \E k \in Ran("source_code") : qLog[k].form = "relative"

\* C29 as stated: after nolint run uniq_by_line, diff,
\* max_per_file_from_linter, max_from_linter and last max_same_issues.
C29_Original ==
    /\ Before("nolint", "uniq_by_line")
    /\ Before("uniq_by_line", "diff")
    /\ Before("diff", "max_per_file_from_linter")
    /\ Before("max_per_file_from_linter", "max_from_linter")
    /\ Before("max_from_linter", "max_same_issues")

\* C29 as amended: after nolint run uniq_by_line, diff,
\* max_per_file_from_linter, max_same_issues and last max_from_linter.
C29_LimitsOrder ==
    /\ Before("nolint", "uniq_by_line")
    /\ Before("uniq_by_line", "diff")
    /\ Before("diff", "max_per_file_from_linter")
    /\ Before("max_per_file_from_linter", "max_same_issues")
    /\ Before("max_same_issues", "max_from_linter")

C29_Witness ==
    /\ qpc = "done"
    /\ qLog # <<>>
    /\ qOut = <<>>
    /\ \E k \in Ran("max_same_issues") : \E n \in Ran("max_from_linter") : n = k + 1

\* The list is in the order of the sort.
Sorted(list) == \A k \in DOMAIN list, n \in DOMAIN list : k < n => ~Less(list[n], list[k])

\* C30: sort_results is the last processor: no Process runs after its own,
\* it runs whenever the pipeline runs, and what the pipeline returns is in
\* the order of file path, line, column and linter.
C30_SortLast ==
    /\ \A k \in Ran("sort_results") : k = Len(qLog)
    /\ qpc = "done" =>
          /\ qIn # <<>> => qLog # <<>> /\ qLog[Len(qLog)].name = "sort_results"
          /\ Sorted(qOut)

C30_Witness ==
    /\ qpc = "done"
    /\ Len(qOut) = 2
    /\ ~Sorted(qIn)
    /\ qOut[1].FilePath = qOut[2].FilePath
    /\ qOut[1].Line = qOut[2].Line
    /\ qOut[1].Column = qOut[2].Column
    /\ qOut[1].FromLinter # qOut[2].FromLinter

\* The directories the user asked for: each argument, with a trailing "..."
\* or a .go file name replaced by its directory, or the current directory
\* when there is no argument.
RequestedDirs ==
    IF runArgs = <<>> THEN {"."}
    ELSE {CASE runArgs[k] \in {"./..."} -> "."
            [] runArgs[k] \in {"pkg/...", "pkg/a.go"} -> "pkg"
            [] OTHER -> runArgs[k] : k \in DOMAIN runArgs}

\* The directory of the issue is one the user asked for.
InRequestedDir(filePath) ==
    \E dir \in RequestedDirs :
        \/ filePath = "a.go" /\ dir = "."
        \/ filePath = "pkg/a.go" /\ dir = "pkg"
        \/ filePath = "pkg/sub/b.go" /\ dir = "pkg/sub"
        \/ filePath = "vendor/v.go" /\ dir = "vendor"

Occurrences(list, x) == Cardinality({k \in DOMAIN list : list[k] = x})

\* C25: SkipDirs never drops an issue whose directory is one the user asked
\* for, whatever the patterns match: shouldPassIssue answers true for it, and
\* Process returns it as often as it was given.
C25_RequestedDirsKept ==
    /\ \A k \in DOMAIN sDecisions :
          InRequestedDir(sDecisions[k].FilePath) => sDecisions[k].pass
    /\ \A k \in DOMAIN sIn :
          (spc = "done" /\ InRequestedDir(sIn[k])) =>
              Occurrences(sOut, sIn[k]) = Occurrences(sIn, sIn[k])

C25_Witness ==
    /\ spc = "done"
    /\ runArgs = <<"pkg/a.go">>
    /\ sPatterns = <<"vendor$", "^pkg">>
    /\ sIn = <<"pkg/sub/b.go", "pkg/a.go", "pkg/a.go">>
    /\ sOut = <<"pkg/a.go", "pkg/a.go">>
    /\ \A k \in DOMAIN sDecisions : sDecisions[k].absOK

\* The list without its i-th element.
RemoveAt(list, i) == SubSeq(list, 1, i - 1) \o SubSeq(list, i + 1, Len(list))

\* C31: a custom linter that fails to load does not make Get fail, and the
\* set build returns, and the names Get returns, are those the same
\* configuration yields without that custom entry.
C31_FailedLoadIgnored ==
    /\ epc = "failed" => loaded = <<>> /\ verr # Nil
    /\ \A i \in DOMAIN loaded :
          loaded[i] = "error" =>
              LET without == [cfg EXCEPT !.Custom = RemoveAt(cfg.Custom, i)]
                  loads == RemoveAt(loaded, i)
              IN /\ epc = "built" => resultLintersSet = Build(without, loads)
                 /\ epc = "done" =>
                       /\ resolved.err = Nil
                       /\ builtSet = Build(without, loads)
                       /\ resolved.names = Get(without, loads, optimize).names

C31_Witness ==
    /\ epc = "done"
    /\ loaded = <<"error">>
    /\ resolved.err = Nil
    /\ resolved.names # {}
    /\ cfg.Fast

\* C37: a custom linter that was loaded is in the set build returns, with the
\* settings of its custom entry, whatever the configuration says: the fast
\* flag does not remove it when it is slow, nor does disable-all, nor the
\* disable list, nor its enabled setting being false.
C37_LoadedCustomStays ==
    epc = "builtDirect" =>
        \A i \in DOMAIN loaded :
            loaded[i] # "error" =>
                \E lc \in resultLintersSet :
                    /\ lc.name = loaded[i]
                    /\ lc.custom
                    /\ lc.isSlow = cfg.Custom[i].slow
                    /\ lc.enabledByDefault = cfg.Custom[i].enabled

C37_Witness ==
    /\ epc = "builtDirect"
    /\ loaded = <<"govet">>
    /\ cfg.Fast
    /\ cfg.DisableAll
    /\ cfg.Enable = <<>>
    /\ Contains(cfg.Disable, "govet")
    /\ cfg.Custom[1].slow /\ ~cfg.Custom[1].enabled
    /\ {lc.name : lc \in resultLintersSet} = {"govet"}

\* A pattern matches the directory of the issue, with the path prefix.
MatchesPattern(filePath) ==
    \E k \in DOMAIN sPatterns :
        MatchString(sPatterns[k], WithPathPrefix(pathPrefix, FilepathDir(filePath)))

\* What the claim says decides: the path is absolute, or its directory was
\* asked for, or no pattern matches its directory.
KeptByRule(filePath) ==
    \/ FilepathIsAbs(filePath)
    \/ InRequestedDir(filePath)
    \/ ~MatchesPattern(filePath)

\* The issues of the decisions that passed, in their order.
KeptIssues ==
    LET kept == SelectSeq(sDecisions, LAMBDA d : d.pass)
    IN [k \in DOMAIN kept |-> kept[k].FilePath]

\* C33 as stated: an issue is kept exactly when its path is absolute, or its
\* directory was asked for, or no pattern matches its directory; without
\* patterns the issues are returned unchanged; the issues of one directory
\* all get the same decision.
C33_Original ==
    /\ \A k \in DOMAIN sDecisions :
          sDecisions[k].pass <=> KeptByRule(sDecisions[k].FilePath)
    /\ (spc = "done" /\ sPatterns = <<>>) => sOut = sIn
    /\ (spc = "done" /\ sPatterns # <<>>) => sOut = KeptIssues
    /\ \A j \in DOMAIN sDecisions, k \in DOMAIN sDecisions :
          FilepathDir(sDecisions[j].FilePath) = FilepathDir(sDecisions[k].FilePath)
          => sDecisions[j].pass = sDecisions[k].pass

\* C33 as amended: an issue is kept exactly when its path is absolute, or
\* its directory was asked for, or no pattern matches its directory, or
\* filepath.Abs fails on its directory while the cache has no decision for
\* it; without patterns the issues are returned unchanged; the issues of one
\* directory all get the same decision, those kept by a failing filepath.Abs
\* aside.
C33_KeptUnlessSkipped ==
    /\ \A k \in DOMAIN sDecisions :
          sDecisions[k].pass <=>
              \/ KeptByRule(sDecisions[k].FilePath)
              \/ ~sDecisions[k].hit /\ ~sDecisions[k].absOK
    /\ (spc = "done" /\ sPatterns = <<>>) => sOut = sIn
    /\ (spc = "done" /\ sPatterns # <<>>) => sOut = KeptIssues
    /\ \A j \in DOMAIN sDecisions, k \in DOMAIN sDecisions :
          (/\ FilepathDir(sDecisions[j].FilePath) = FilepathDir(sDecisions[k].FilePath)
           /\ sDecisions[j].hit \/ sDecisions[j].absOK
           /\ sDecisions[k].hit \/ sDecisions[k].absOK)
          => sDecisions[j].pass = sDecisions[k].pass

C33_Witness ==
    /\ spc = "done"
    /\ pathPrefix = "pre"
    /\ sPatterns = <<"vendor$", "^pkg">>
    /\ runArgs = <<"pkg/...">>
    /\ sIn = <<"vendor/v.go", "vendor/v.go", "pkg/sub/b.go">>
    /\ sDecisions[1].pass /\ ~sDecisions[1].absOK
    /\ ~sDecisions[2].pass /\ sDecisions[2].absOK
    /\ sDecisions[3].pass /\ sDecisions[3].absOK
    /\ sOut = <<"vendor/v.go", "pkg/sub/b.go">>

\* The decisions that dropped an issue of the directory.
DroppedOf(dir) ==
    {k \in DOMAIN sDecisions :
        /\ ~sDecisions[k].pass
        /\ ~FilepathIsAbs(sDecisions[k].FilePath)
        /\ FilepathDir(sDecisions[k].FilePath) = dir}

\* C34: for each directory the count of skippedDirs is the number of issues
\* of that directory that were dropped, a directory has an entry exactly when
\* an issue of it was dropped, every directory the cache holds as skipped has
\* an entry, and no cache hit reads a missing entry.
C34_SkipCounts ==
    /\ \A dir \in RelDirs :
          /\ skippedDirs[dir].count = Cardinality(DroppedOf(dir))
          /\ skippedDirs[dir] = NoStat <=> DroppedOf(dir) = {}
          /\ skippedDirsCache[dir] = "skip" => skippedDirs[dir] # NoStat
    /\ ~sPanic
    /\ spc = "done" =>
          Len(sIn) - Len(sOut) = Cardinality({k \in DOMAIN sDecisions : ~sDecisions[k].pass})

C34_Witness ==
    /\ spc = "done"
    /\ sIn = <<"pkg/a.go", "pkg/a.go", "pkg/a.go">>
    /\ sOut = <<>>
    /\ skippedDirs["pkg"] = [pattern |-> "^pkg", count |-> 3]
    /\ sDecisions[1].hit = FALSE /\ sDecisions[2].hit /\ sDecisions[3].hit

\* C35: when getOrCreateFileSummary has failed for a path (the path is empty,
\* or the file cannot be read), the cache of the stage holds the path as not
\* generated, and every later issue of that path, not a typecheck one, that
\* the same stage sees is kept, without an error and without the file being
\* opened again.
C35_FailedEntryStays ==
    \A j \in DOMAIN decisions :
        decisions[j].err # Nil =>
            LET filePath == decisions[j].issue.FilePath
            IN /\ fileSummaryCache[filePath] = "not generated"
               /\ opens[filePath] <= 1
               /\ filePath = "" => opens[filePath] = 0
               /\ \A k \in DOMAIN decisions :
                     (k > j /\ decisions[k].issue.FilePath = filePath) =>
                         decisions[k].pass /\ decisions[k].err = Nil

C35_Witness ==
    /\ Len(decisions) = 3
    /\ decisions[1].issue = [FromLinter |-> "govet", FilePath |-> "missing.go"]
    /\ decisions[1].err # Nil
    /\ decisions[2].issue = [FromLinter |-> "govet", FilePath |-> "missing.go"]
    /\ decisions[2].pass
    /\ decisions[3].issue = [FromLinter |-> "govet", FilePath |-> ""]
    /\ decisions[3].err # Nil
    /\ opens["missing.go"] = 1

\* C36: the sequence handed to the pipeline is made of the diagnostics of the
\* linters that returned no error, and of nothing else: a linter whose Run
\* returned an error together with diagnostics, or panicked, contributes none.
C36_FailedLinterContributesNothing ==
    (pc \in {"process", "finish", "done"} \/ result.returned) =>
        /\ inIssues = SucceededIssues(runLog)
        /\ \A j \in Failed(runLog) :
              \A n \in DOMAIN inIssues : inIssues[n].FromLinter # linters[runLog[j].linter]

C36_Witness ==
    /\ result.returned
    /\ Len(runLog) = 2
    /\ runLog[1].outcome = "error" /\ runLog[1].issues = <<Unstamped>>
    /\ runLog[2].outcome = "ok" /\ runLog[2].issues = <<Unstamped>>
    /\ Len(inIssues) = 1
    /\ inIssues[1].FromLinter = linters[2]

\* C38: with settings, an analyzer is selected by this precedence: enable-all
\* selects it; else the enable list selects it; else the disable list
\* deselects it; else disable-all deselects it; else it is selected exactly
\* when it is a default analyzer. So, enable-all not being set, an analyzer
\* of the disable list that is not in the enable list is not selected.
C38_DisableListHonoured ==
    (gpc = "done" /\ ~govetCfg.nil) =>
        \A k \in DOMAIN AllAnalyzers :
            LET name == AllAnalyzers[k]
                expected ==
                    CASE govetCfg.EnableAll -> TRUE
                      [] Contains(govetCfg.Enable, name) -> TRUE
                      [] Contains(govetCfg.Disable, name) -> FALSE
                      [] govetCfg.DisableAll -> FALSE
                      [] OTHER -> name \notin {"atomicalign", "shadow"}
            IN Contains(enabledAnalyzers, name) <=> expected

\* C32: every issue whitespace reports is that of one finding of a pass, and
\* has exactly one kind of replacement: the deletion of lines, with a line
\* range, or an inline insertion.
C32_OneReplacementKind ==
    wLinter = "whitespace" =>
        \A k \in DOMAIN reported :
            LET i == reported[k]
            IN /\ i.Pass \in Passes /\ i.Finding >= 1
               /\ i.Replacement.set
               /\ \/ /\ i.Replacement.NeedOnlyDelete
                     /\ ~i.Replacement.Inline
                     /\ i.LineRange.set
                  \/ /\ i.Replacement.Inline
                     /\ ~i.Replacement.NeedOnlyDelete
                     /\ ~i.LineRange.set

\* The passes that hold the mutex according to where they are.
InCriticalSection == {p \in Passes : wpc[p] \in {"read", "write", "unlock"}}

\* The issues of the passes that returned no error, pass after pass.
RECURSIVE IssuesOfPasses(_)
IssuesOfPasses(n) ==
    IF n = 0 THEN <<>> ELSE IssuesOfPasses(n - 1) \o (IF wErr[n] THEN <<>> ELSE wIssues[n])

\* C39: at most one pass at a time is between Lock and Unlock, and when all
\* passes have returned, resIssues, which the reporter returns, holds the
\* issues of every pass once: the issues of each pass stand together in it,
\* and it holds as many issues as the passes made.
C39_AppendsExclusive ==
    /\ Cardinality(InCriticalSection) <= 1
    /\ \A p \in InCriticalSection : mu = p
    /\ (\A p \in Passes : wpc[p] \in {"done", "reported"}) =>
          /\ Len(resIssues) = Len(IssuesOfPasses(Cardinality(Passes)))
          /\ \A p \in Passes :
                (~wErr[p] /\ wIssues[p] # <<>>) =>
                    \E off \in 0..Len(resIssues) :
                        /\ off + Len(wIssues[p]) <= Len(resIssues)
                        /\ SubSeq(resIssues, off + 1, off + Len(wIssues[p])) = wIssues[p]
          /\ \A k \in DOMAIN resIssues :
                resIssues[k].Pass # 0 =>
                    \A n \in DOMAIN resIssues :
                        (resIssues[n].Pass = resIssues[k].Pass
                         /\ resIssues[n].Finding = resIssues[k].Finding) => n = k
    /\ (\A p \in Passes : wpc[p] = "reported") => reported = resIssues

C39_Witness ==
    /\ \A p \in Passes : wpc[p] = "reported"
    /\ wLinter = "lll"
    /\ Len(wIssues[1]) = 2 /\ Len(wIssues[2]) = 1
    /\ Len(reported) = 3
    /\ reported[1].Pass = 2
    /\ reported[2].Pass = 1

====
